---- MODULE Spec2Model ----
(***************************************************************************)
(* Model of the trading service of swipe-news                               *)
(* (server/trading-service: main.py, trader_privy.py, privy_signer.py).      *)
(*                                                                         *)
(* Python values are records [t, v, s]: t is the type tag, v the integer    *)
(* payload, s the character payload (a sequence of one-character strings).  *)
(* A float carries in v what int(value) yields and in s what str(value)     *)
(* yields; any other object carries in s what str(value) yields.            *)
(***************************************************************************)
EXTENDS Integers, Sequences, FiniteSets, TLC

\* ------------------------------------------------------------- bounds
MaxLen == 3
MaxObjLen == 2
MaxInt == 17

\* ------------------------------------------------------------- values
None == [t |-> "none", v |-> 0, s |-> <<>>]
IntV(n) == [t |-> "int", v |-> n, s |-> <<>>]
StrV(str) == [t |-> "str", v |-> 0, s |-> str]
FloatV(trunc, str) == [t |-> "float", v |-> trunc, s |-> str]
NonFiniteV(str) == [t |-> "nonfinite", v |-> 0, s |-> str]
ObjV(str) == [t |-> "obj", v |-> 0, s |-> str]
Raised(exc) == [t |-> "raise", v |-> 0, s |-> <<exc>>]
BoolV(b) == [t |-> "bool", v |-> IF b THEN 1 ELSE 0, s |-> <<>>]

Chars == {"0", "1", "x", "a", "-", ".", " "}
StrsUpTo(n) == UNION {[1..k -> Chars] : k \in 0..n}

HexChars == <<"0", "1", "2", "3", "4", "5", "6", "7", "8", "9", "a", "b", "c", "d", "e", "f">>
DecChars == <<"0", "1", "2", "3", "4", "5", "6", "7", "8", "9">>
DecDigits == {DecChars[i] : i \in 1..10}
HexDigits == {HexChars[i] : i \in 1..16}

DigitVal(c) == CHOOSE d \in 0..9 : DecChars[d + 1] = c

startswith(str, prefix) ==
    /\ Len(str) >= Len(prefix)
    /\ SubSeq(str, 1, Len(prefix)) = prefix

\* ------------------------------------------------------------- hex(), str(), int()
RECURSIVE HexMagnitude(_)
HexMagnitude(n) ==
    IF n < 16 THEN <<HexChars[n + 1]>>
    ELSE HexMagnitude(n \div 16) \o <<HexChars[(n % 16) + 1]>>

RECURSIVE DecMagnitude(_)
DecMagnitude(n) ==
    IF n < 10 THEN <<DecChars[n + 1]>>
    ELSE DecMagnitude(n \div 10) \o <<DecChars[(n % 10) + 1]>>

\* str(n) of an integer
DecStr(n) == IF n < 0 THEN <<"-">> \o DecMagnitude(-n) ELSE DecMagnitude(n)

\* hex(n) with the digits padded to an even count
hex_padded(n) ==
    LET m == HexMagnitude(IF n < 0 THEN -n ELSE n)
        d == IF Len(m) % 2 = 1 THEN <<"0">> \o m ELSE m
    IN  IF n < 0 THEN <<"-", "0", "x">> \o d ELSE <<"0", "x">> \o d

\* hex(n) of an integer: "0x" and the digits without leading zeros, "-0x.." below zero
hex(n) ==
    IF n < 0 THEN <<"-", "0", "x">> \o HexMagnitude(-n)
    ELSE <<"0", "x">> \o HexMagnitude(n)

RECURSIVE lstrip(_, _)
lstrip(str, set) ==
    IF str # <<>> /\ Head(str) \in set THEN lstrip(Tail(str), set) ELSE str

RECURSIVE rstrip(_, _)
rstrip(str, set) ==
    IF str # <<>> /\ str[Len(str)] \in set
    THEN rstrip(SubSeq(str, 1, Len(str) - 1), set) ELSE str

Whitespace == {" "}

\* the digits of an integer literal: decimal digits, single underscores between them
ValidBody(b) ==
    /\ Len(b) > 0
    /\ \A i \in 1..Len(b) : b[i] \in DecDigits \cup {"_"}
    /\ b[1] # "_"
    /\ b[Len(b)] # "_"
    /\ \A i \in 1..(Len(b) - 1) : ~(b[i] = "_" /\ b[i + 1] = "_")

RECURSIVE BodyVal(_)
BodyVal(b) ==
    IF b = <<>> THEN 0
    ELSE LET front == SubSeq(b, 1, Len(b) - 1)
             last == b[Len(b)]
         IN  IF last = "_" THEN BodyVal(front)
             ELSE BodyVal(front) * 10 + DigitVal(last)

\* int(str) in base 10: [ok |-> FALSE] stands for the ValueError
int_str(str) ==
    LET st == rstrip(lstrip(str, Whitespace), Whitespace)
        signed == st # <<>> /\ st[1] \in {"+", "-"}
        body == IF signed THEN Tail(st) ELSE st
    IN  IF ValidBody(body)
        THEN [ok |-> TRUE, v |-> IF signed /\ st[1] = "-" THEN -BodyVal(body) ELSE BodyVal(body)]
        ELSE [ok |-> FALSE, v |-> 0]

\* str(value)
str_of(value) ==
    CASE value.t = "none" -> <<"N", "o", "n", "e">>
      [] value.t = "int" -> DecStr(value.v)
      [] OTHER -> value.s

\* truth value of a Python object
truthy(value) ==
    CASE value.t \in {"none", "absent"} -> FALSE
      [] value.t \in {"int", "bool"} -> value.v # 0
      [] value.t = "str" -> value.s # <<>>
      [] value.t = "float" -> value.s \notin {<<"0", ".", "0">>, <<"-", "0", ".", "0">>}
      [] OTHER -> TRUE

\* ------------------------------------------------------------- to_hex
\* trader_privy.py to_hex. Line 228 parses base 16 only for a "0x" string, which
\* line 224 has already returned, so the parse is always int(value).
to_hex_decimal(value) ==
    CASE value.t = "none" -> None
      [] value.t = "str" ->
            IF startswith(value.s, <<"0", "x">>) THEN value
            ELSE LET num == int_str(value.s)
                 IN  IF num.ok THEN StrV(hex(num.v)) ELSE value
      [] value.t \in {"int", "float"} -> StrV(DecStr(value.v))
      [] value.t = "nonfinite" -> Raised("OverflowError")
      [] OTHER -> StrV(str_of(value))
to_hex(value) ==
    CASE value.t = "none" -> None
      [] value.t = "str" ->
            IF startswith(value.s, <<"0", "x">>) THEN value
            ELSE LET num == int_str(value.s)
                 IN  IF num.ok THEN StrV(hex(num.v)) ELSE value
      [] value.t \in {"int", "float"} -> StrV(hex(value.v))
      [] value.t = "nonfinite" ->
            Raised(IF value.s = <<"n", "a", "n">> THEN "ValueError" ELSE "OverflowError")
      [] OTHER -> StrV(str_of(value))

\* privy_signer.py to_hex: only an int is encoded, a float goes to str(value)
signer_to_hex(value) ==
    CASE value.t = "none" -> None
      [] value.t = "str" ->
            IF startswith(value.s, <<"0", "x">>) THEN value
            ELSE LET num == int_str(value.s)
                 IN  IF num.ok THEN StrV(hex(num.v)) ELSE value
      [] value.t = "int" -> StrV(hex(value.v))
      [] OTHER -> StrV(str_of(value))


\* ------------------------------------------------------------- transaction dicts
Absent == [t |-> "absent", v |-> 0, s |-> <<>>]
BaseChainId == 8453

RawKeys ==
    {"to", "to_address", "value", "amount", "data", "input", "callData", "gas",
     "gasLimit", "nonce", "chainId", "chain_id", "maxFeePerGas",
     "maxPriorityFeePerGas", "gasPrice"}
EnvKeys ==
    {"to", "value", "data", "gas", "nonce", "chainId", "maxFeePerGas",
     "maxPriorityFeePerGas", "gasPrice"}
NumericKeys ==
    {"value", "gas", "nonce", "chainId", "maxFeePerGas", "maxPriorityFeePerGas",
     "gasPrice"}

\* k in d, d.get(k), a or b
has(d, k) == d[k] # Absent
get(d, k) == IF d[k] = Absent THEN None ELSE d[k]
Or(a, b) == IF truthy(a) THEN a ELSE b

\* the first exception raised while the fields are computed in source order
FirstRaise(fields, order) ==
    LET bad == {i \in 1..Len(order) : fields[order[i]].t = "raise"}
    IN  IF bad = {} THEN None
        ELSE fields[order[CHOOSE i \in bad : \A j \in bad : i <= j]]

\* build_unsigned_transaction, lines 236-281, for a transaction that is a dict:
\* getattr(tx, name, default) then yields the default.
EnvTo(tx) ==
    IF has(tx, "to") \/ has(tx, "to_address")
    THEN LET to == Or(Or(get(tx, "to"), get(tx, "to_address")), None)
         IN  IF ~truthy(to) THEN to
             ELSE IF to.t # "str" THEN Raised("AttributeError")
             ELSE IF startswith(to.s, <<"0", "x">>) THEN to
             ELSE StrV(<<"0", "x">> \o lstrip(to.s, {"0", "x"}))
    ELSE Absent

EnvValue(tx) ==
    LET value == Or(Or(get(tx, "value"), get(tx, "amount")), IntV(0))
        h == to_hex(value)
    IN  IF h.t = "raise" THEN h ELSE Or(h, StrV(<<"0", "x", "0">>))

EnvData(tx) ==
    LET data == Or(Or(Or(get(tx, "data"), get(tx, "input")), get(tx, "callData")), None)
    IN  IF ~truthy(data) THEN Absent
        ELSE IF data.t = "str" /\ startswith(data.s, <<"0", "x">>) THEN data
        ELSE StrV(<<"0", "x">> \o str_of(data))

EnvGas(tx) ==
    LET gas == Or(Or(get(tx, "gas"), get(tx, "gasLimit")), None)
    IN  IF truthy(gas) THEN to_hex(gas) ELSE Absent

EnvNonce(tx) ==
    LET nonce == Or(get(tx, "nonce"), None)
    IN  IF nonce # None THEN to_hex(nonce) ELSE Absent

EnvChainId(tx) ==
    to_hex(Or(Or(get(tx, "chainId"), get(tx, "chain_id")), IntV(BaseChainId)))

EnvFee(tx, key) ==
    LET max_fee_per_gas == Or(get(tx, "maxFeePerGas"), None)
        max_priority_fee_per_gas == Or(get(tx, "maxPriorityFeePerGas"), None)
        eip1559 == truthy(max_fee_per_gas) \/ truthy(max_priority_fee_per_gas)
        gas_price == Or(get(tx, "gasPrice"), None)
    IN  CASE key = "maxFeePerGas" ->
                IF eip1559 /\ truthy(max_fee_per_gas)
                THEN to_hex(max_fee_per_gas) ELSE Absent
          [] key = "maxPriorityFeePerGas" ->
                IF eip1559 /\ truthy(max_priority_fee_per_gas)
                THEN to_hex(max_priority_fee_per_gas) ELSE Absent
          [] OTHER ->
                IF ~eip1559 /\ truthy(gas_price) THEN to_hex(gas_price) ELSE Absent

EnvOrder ==
    <<"to", "value", "data", "gas", "nonce", "chainId", "maxFeePerGas",
      "maxPriorityFeePerGas", "gasPrice">>

\* [ok |-> TRUE, tx |-> the eip1559_tx dict] or [ok |-> FALSE, exc |-> the exception]
eip1559_tx(tx) ==
    LET fields ==
            [k \in EnvKeys |->
                CASE k = "to" -> EnvTo(tx)
                  [] k = "value" -> EnvValue(tx)
                  [] k = "data" -> EnvData(tx)
                  [] k = "gas" -> EnvGas(tx)
                  [] k = "nonce" -> EnvNonce(tx)
                  [] k = "chainId" -> EnvChainId(tx)
                  [] OTHER -> EnvFee(tx, k)]
        exc == FirstRaise(fields, EnvOrder)
    IN  IF exc = None THEN [ok |-> TRUE, tx |-> fields, exc |-> None]
        ELSE [ok |-> FALSE, tx |-> [k \in EnvKeys |-> Absent], exc |-> exc]

\* PrivySigner.sign_transaction, lines 126-170
RpcTo(tx) ==
    LET tx_to == Or(get(tx, "to"), get(tx, "to_address"))
    IN  IF ~truthy(tx_to) THEN Absent
        ELSE IF tx_to.t # "str" THEN Raised("AttributeError")
        ELSE IF startswith(tx_to.s, <<"0", "x">>) THEN tx_to
        ELSE StrV(<<"0", "x">> \o tx_to.s)

RpcValue(tx) ==
    LET tx_value == Or(Or(get(tx, "value"), get(tx, "amount")), StrV(<<"0", "x", "0">>))
    IN  IF truthy(tx_value) THEN signer_to_hex(tx_value) ELSE Absent

RpcData(tx) ==
    LET tx_data == Or(Or(get(tx, "data"), get(tx, "input")), get(tx, "callData"))
    IN  IF ~truthy(tx_data) THEN Absent
        ELSE IF tx_data.t # "str" THEN Raised("AttributeError")
        ELSE IF startswith(tx_data.s, <<"0", "x">>) THEN tx_data
        ELSE StrV(<<"0", "x">> \o tx_data.s)

RpcGas(tx) ==
    LET tx_gas == Or(get(tx, "gas"), get(tx, "gasLimit"))
    IN  IF truthy(tx_gas) THEN signer_to_hex(tx_gas) ELSE Absent

RpcNonce(tx) ==
    LET tx_nonce == get(tx, "nonce")
    IN  IF tx_nonce # None THEN signer_to_hex(tx_nonce) ELSE Absent

RpcFee(tx, key) ==
    LET eip1559 == has(tx, "maxFeePerGas") \/ has(tx, "maxPriorityFeePerGas")
    IN  CASE key = "maxFeePerGas" ->
                IF eip1559 THEN signer_to_hex(get(tx, "maxFeePerGas")) ELSE Absent
          [] key = "maxPriorityFeePerGas" ->
                IF eip1559 THEN signer_to_hex(get(tx, "maxPriorityFeePerGas")) ELSE Absent
          [] OTHER ->
                IF ~eip1559 /\ has(tx, "gasPrice")
                THEN signer_to_hex(get(tx, "gasPrice")) ELSE Absent

RpcChainId(tx) ==
    signer_to_hex(Or(Or(get(tx, "chainId"), get(tx, "chain_id")), IntV(BaseChainId)))

RpcOrder ==
    <<"to", "value", "data", "gas", "nonce", "maxFeePerGas", "maxPriorityFeePerGas",
      "gasPrice", "chainId">>

rpc_params(tx) ==
    LET fields ==
            [k \in EnvKeys |->
                CASE k = "to" -> RpcTo(tx)
                  [] k = "value" -> RpcValue(tx)
                  [] k = "data" -> RpcData(tx)
                  [] k = "gas" -> RpcGas(tx)
                  [] k = "nonce" -> RpcNonce(tx)
                  [] k = "chainId" -> RpcChainId(tx)
                  [] OTHER -> RpcFee(tx, k)]
        exc == FirstRaise(fields, RpcOrder)
    IN  IF exc = None THEN [ok |-> TRUE, tx |-> fields, exc |-> None]
        ELSE [ok |-> FALSE, tx |-> [k \in EnvKeys |-> Absent], exc |-> exc]

\* ------------------------------------------------------------- state
VARIABLES hxArg, hxImpl, hxRes, hxRes2,     \* to_hex: argument, implementation, results
          rawTx, envTrader, envSigner,        \* raw transaction and its two normal forms
          positions,            \* the wallet's open positions on chain
          everOpened,           \* history: every position the chain ever opened
          trader_cache,         \* main.py _trader_cache: the keys holding a trader
          request,              \* the request being served
          pc,                   \* the await the request is suspended at
          reads,                \* asyncio.gather: state of the three reads
          pair_index, current_price, existing_positions, trade_index,
          trade_input,          \* the TradeInput handed to build_trade_open_tx
          tx_dict,              \* the raw transaction the SDK built
          rpc,                  \* the params posted to the signer
          result,               \* the TradeResult returned by the trader method
          response,             \* what the endpoint returns
          calls,                \* history: external calls issued, in order
          raised,               \* history: the exception an external call raised
          list_pc,              \* get_trades: where the handler is
          n_trades,             \* get_trades: len(trades) the SDK returned
          raw_trades,           \* the raw trades the loop has reached, in order
          market_status,        \* per raw trade: outcome of the market-status call
          formatted_trades,     \* main.py formatted_trades
          origin,               \* history: per formatted trade, its raw trade's place
          list_response,        \* the response of get_trades
          pairs_cache,          \* main.py _pairs_cache
          pairs_cache_timestamp,    \* main.py _pairs_cache_timestamp
          now,                  \* time.time()
          pairs_pc,             \* per get_pairs_cache call: where it is
          current_time,         \* per call: its local current_time
          pairs_map,            \* per call: the mapping it returned
          lookup_outcome,       \* history, per call: "cache", "refreshed" or "failed"
          refreshed_at,         \* history: when the last successful refresh returned
          traders,              \* concurrent requests: the trader _trader_cache holds for the key
          closed_traders,       \* traders whose close() has been called
          initialized,          \* traders whose initialize() has returned
          created,              \* number of traders constructed so far
          stored_last,          \* history: the trader stored last in the cache
          slots_taken,          \* the slots the pair holds on chain
          task_pc,              \* per request task: the await it is suspended at
          task_trader,          \* per task: the trader it works with
          task_evicting,        \* per task: the trader its eviction step closed
          task_read,            \* per task: the slots it read
          task_slot,            \* per task: the slot it computed
          task_result           \* per task: how its request ended

hexVars == <<hxArg, hxImpl, hxRes, hxRes2>>
envVars == <<rawTx, envTrader, envSigner>>
chainVars == <<positions, everOpened, trader_cache>>
reqVars ==
    <<request, pc, reads, pair_index, current_price, existing_positions, trade_index,
      trade_input, tx_dict, rpc, result, response, calls, raised>>
tradeVars == <<chainVars, reqVars>>
listVars ==
    <<list_pc, n_trades, raw_trades, market_status, formatted_trades, origin,
      list_response>>
pairsVars ==
    <<pairs_cache, pairs_cache_timestamp, now, pairs_pc, current_time, pairs_map,
      lookup_outcome, refreshed_at>>
raceVars ==
    <<traders, closed_traders, initialized, created, stored_last, slots_taken,
      task_pc, task_trader, task_evicting, task_read, task_slot, task_result>>
vars == <<hexVars, envVars, tradeVars, listVars, pairsVars, raceVars>>

Unset == [t |-> "unset", v |-> 0, s |-> <<>>]

\* a transaction as the SDK's web3 builder typically returns it
TypicalRawTx ==
    [k \in RawKeys |->
        CASE k = "to" -> StrV(<<"0", "x", "a", "1">>)
          [] k = "value" -> IntV(0)
          [] k = "data" -> StrV(<<"0", "x", "1", "0">>)
          [] k = "gas" -> IntV(5)
          [] k = "nonce" -> IntV(1)
          [] k = "chainId" -> IntV(BaseChainId)
          [] k = "maxFeePerGas" -> IntV(5)
          [] k = "maxPriorityFeePerGas" -> IntV(1)
          [] OTHER -> Absent]

EnvIdle ==
    /\ rawTx = TypicalRawTx
    /\ envTrader = Unset
    /\ envSigner = Unset

HexIdle ==
    /\ hxArg = None
    /\ hxImpl = "trader"
    /\ hxRes = Unset
    /\ hxRes2 = Unset

\* ------------------------------------------------------------- idle get_trades, idle cache
MaxCallers == 2
PAIRS_CACHE_TTL == 300
Callers == 1..MaxCallers
EmptyMap == [i \in {} |-> <<>>]
NoListResponse ==
    [status |-> 0, trades |-> <<>>, active_trades |-> <<>>, closed_trades |-> <<>>]

ListIdle ==
    /\ list_pc = "idle"
    /\ n_trades = 0
    /\ raw_trades = <<>>
    /\ market_status = <<>>
    /\ formatted_trades = <<>>
    /\ origin = <<>>
    /\ list_response = NoListResponse

\* the module as imported: empty cache, timestamp 0, and a clock far past 0
PairsIdle ==
    /\ pairs_cache = EmptyMap
    /\ pairs_cache_timestamp = 0
    /\ now = PAIRS_CACHE_TTL
    /\ pairs_pc = [c \in Callers |-> "idle"]
    /\ current_time = [c \in Callers |-> 0]
    /\ pairs_map = [c \in Callers |-> EmptyMap]
    /\ lookup_outcome = [c \in Callers |-> "none"]
    /\ refreshed_at = -1

MaxTasks == 2
MaxTraders == 3
Tasks == 1..MaxTasks
NoTrader == 0
NoSlot == -1

\* no request task has started; the cache of traders is empty
RaceIdle ==
    /\ traders = NoTrader
    /\ closed_traders = {}
    /\ initialized = {}
    /\ created = 0
    /\ stored_last = NoTrader
    /\ slots_taken = {}
    /\ task_pc = [k \in Tasks |-> "idle"]
    /\ task_trader = [k \in Tasks |-> NoTrader]
    /\ task_evicting = [k \in Tasks |-> NoTrader]
    /\ task_read = [k \in Tasks |-> {}]
    /\ task_slot = [k \in Tasks |-> NoSlot]
    /\ task_result = [k \in Tasks |-> "none"]

\* ------------------------------------------------------------- trading data
MaxSlot == 2
Null == -1

Symbols == {"BTC/USD", "ETH/USD"}
\* client.pairs_cache.get_pair_index
PairIndexOf(symbol) == IF symbol = "BTC/USD" THEN 0 ELSE 1
PairIndexes == {PairIndexOf(sym) : sym \in Symbols}
Slots == 0..MaxSlot
Sides == {"LONG", "SHORT"}
FeedPrices == {100}
ClientPrices == {99}
Collaterals == {50}
Leverages == {10}
TakeProfitPercents == {200}

Position(pi, ti) == [pair_index |-> pi, trade_index |-> ti]

Max(S) == CHOOSE x \in S : \A y \in S : y <= x

\* the slot computation of build_unsigned_transaction (lines 168-177), repeated
\* verbatim in open_position (385-394) and execute_trade (main.py 301-310)
pair_positions(existing, pi) == {p \in existing : p.pair_index = pi}
\* the number of positions of the pair, instead of one past the highest
next_slot_count(existing, pi) == Cardinality(pair_positions(existing, pi))
\* the lowest slot no position of the pair holds (gap filling)
next_slot_lowest_free(existing, pi) ==
    CHOOSE ti \in 0..Cardinality(existing) :
        /\ Position(pi, ti) \notin existing
        /\ \A tj \in 0..(ti - 1) : Position(pi, tj) \in existing
\* slot 0 whatever the pair already holds
next_slot_zero(existing, pi) == 0
next_slot(existing, pi) ==
    IF pair_positions(existing, pi) # {}
    THEN Max({p.trade_index : p \in pair_positions(existing, pi)}) + 1
    ELSE 0

\* the take profit kept from going below zero
take_profit_clamped(side, price, percent) ==
    IF side = "LONG" THEN (price * (100 + percent)) \div 100
    ELSE Max({0, (price * (100 - percent)) \div 100})

\* take_profit = current_price * (1 +- take_profit_percent / 100)
take_profit(side, price, percent) ==
    IF side = "LONG" THEN (price * (100 + percent)) \div 100
    ELSE (price * (100 - percent)) \div 100

NoRequest ==
    [op |-> "none", market_pair |-> "", side |-> "", collateral |-> 0, leverage |-> 0,
     take_profit_percent |-> 0, signed_transaction |-> Null, pair_index |-> Null,
     trade_index |-> Null, entry_price |-> Null]
NoTradeInput ==
    [pair_index |-> Null, index |-> Null, is_long |-> FALSE, collateral_in_trade |-> 0,
     leverage |-> 0, tp |-> 0, sl |-> 0]
NoError == <<>>
NoResult ==
    [returned |-> FALSE, success |-> FALSE, error |-> NoError, entry_price |-> Null,
     pair_index |-> Null, trade_index |-> Null]
NoResponse ==
    [status |-> 0, detail |-> NoError, transaction |-> [k \in EnvKeys |-> Absent],
     pair_index |-> Null, trade_index |-> Null, entry_price |-> Null]
NoReads == [w \in {"pair_index", "price", "positions"} |-> "none"]
NoTx == [k \in RawKeys |-> Absent]
NoRpc == [k \in EnvKeys |-> Absent]
CacheKey == <<"user", "wallet">>

ReqIdle ==
    /\ request = NoRequest
    /\ pc = "idle"
    /\ reads = NoReads
    /\ pair_index = Null
    /\ current_price = Null
    /\ existing_positions = {}
    /\ trade_index = Null
    /\ trade_input = NoTradeInput
    /\ tx_dict = NoTx
    /\ rpc = NoRpc
    /\ result = NoResult
    /\ response = NoResponse
    /\ calls = <<>>
    /\ raised = NoError

TradeIdle ==
    /\ positions = {}
    /\ everOpened = {}
    /\ trader_cache = {}
    /\ ReqIdle

\* ------------------------------------------------------------- to_hex applied
IntInputs == (-2..MaxInt) \cup {255, 8453}
FloatInputs ==
    { FloatV(1, <<"1", ".", "5">>), FloatV(2, <<"2", ".", "0">>),
      FloatV(0, <<"-", "0", ".", "5">>), FloatV(0, <<"0", ".", "0">>),
      NonFiniteV(<<"i", "n", "f">>), NonFiniteV(<<"n", "a", "n">>) }
HexInputs ==
    {None} \cup {IntV(n) : n \in IntInputs}
           \cup {StrV(str) : str \in StrsUpTo(MaxLen)}
           \cup FloatInputs
           \cup {ObjV(str) : str \in StrsUpTo(MaxObjLen)}

apply_to_hex(impl, value) ==
    IF impl = "trader" THEN to_hex(value) ELSE signer_to_hex(value)

HexInit ==
    /\ EnvIdle
    /\ TradeIdle
    /\ ListIdle
    /\ PairsIdle
    /\ RaceIdle
    /\ hxArg \in HexInputs
    /\ hxImpl \in {"trader", "signer"}
    /\ hxRes = Unset
    /\ hxRes2 = Unset

HexApply ==
    /\ hxRes = Unset
    /\ hxRes' = apply_to_hex(hxImpl, hxArg)
    /\ UNCHANGED <<hxArg, hxImpl, hxRes2, envVars, tradeVars, listVars, pairsVars, raceVars>>

HexReapply ==
    /\ hxRes.t \notin {"unset", "raise"}
    /\ hxRes2 = Unset
    /\ hxRes2' = apply_to_hex(hxImpl, hxRes)
    /\ UNCHANGED <<hxArg, hxImpl, hxRes, envVars, tradeVars, listVars, pairsVars, raceVars>>

HexNext == HexApply \/ HexReapply

SpecHex == HexInit /\ [][HexNext]_vars

\* ------------------------------------------------------------- normalisation applied
\* Field values a raw transaction can carry.
FieldVals ==
    { Absent, None, IntV(0), IntV(5), IntV(-1),
      StrV(<<>>), StrV(<<"1", "2">>), StrV(<<"0", "x", "1", "0">>),
      StrV(<<"1", ".", "5">>), StrV(<<"0", "0", "a", "1">>),
      FloatV(1, <<"1", ".", "5">>), ObjV(<<"b", "1">>) }

\* The keys each envelope field is computed from; fields of different groups
\* are computed independently of each other.
KeyGroups ==
    { {"to", "to_address"}, {"value", "amount"}, {"data", "input", "callData"},
      {"gas", "gasLimit"}, {"nonce"}, {"chainId", "chain_id"},
      {"maxFeePerGas", "maxPriorityFeePerGas", "gasPrice"} }

RawTxs ==
    UNION { { [k \in RawKeys |-> IF k \in g THEN f[k] ELSE TypicalRawTx[k]]
                : f \in [g -> FieldVals] } : g \in KeyGroups }

EnvInit ==
    /\ HexIdle
    /\ TradeIdle
    /\ ListIdle
    /\ PairsIdle
    /\ RaceIdle
    /\ rawTx \in RawTxs
    /\ envTrader = Unset
    /\ envSigner = Unset

\* build_unsigned_transaction's conversion of the raw transaction
EnvBuild ==
    /\ envTrader = Unset
    /\ envTrader' = eip1559_tx(rawTx)
    /\ UNCHANGED <<rawTx, envSigner, hexVars, tradeVars, listVars, pairsVars, raceVars>>

\* sign_transaction's conversion of the same raw transaction
EnvSign ==
    /\ envSigner = Unset
    /\ envSigner' = rpc_params(rawTx)
    /\ UNCHANGED <<rawTx, envTrader, hexVars, tradeVars, listVars, pairsVars, raceVars>>

EnvNext == EnvBuild \/ EnvSign

SpecEnv == EnvInit /\ [][EnvNext]_vars

IsHexString(value) ==
    /\ value.t = "str"
    /\ startswith(value.s, <<"0", "x">>)
    /\ Len(value.s) > 2
    /\ \A i \in 3..Len(value.s) : value.s[i] \in HexDigits

Built == envTrader # Unset /\ envTrader.ok

\* C3: every numeric field present in the envelope returned by build is a
\* "0x"-prefixed hex string, whatever field values the raw transaction carries.
C3_NumericFieldsHex ==
    Built => \A k \in NumericKeys :
                envTrader.tx[k] # Absent => IsHexString(envTrader.tx[k])

\* the raw transaction has the key with a value that is neither None nor empty
carries(tx, k) == has(tx, k) /\ tx[k] \notin {None, StrV(<<>>)}

\* C4: the envelope never holds gasPrice together with an EIP-1559 fee field; it
\* holds each EIP-1559 fee field the raw transaction carries, and gasPrice only
\* when the raw transaction carries no EIP-1559 fee field.
C4_FeeFields ==
    Built =>
        LET e == envTrader.tx
        IN  /\ ~(e["gasPrice"] # Absent
                 /\ (e["maxFeePerGas"] # Absent \/ e["maxPriorityFeePerGas"] # Absent))
            /\ \A k \in {"maxFeePerGas", "maxPriorityFeePerGas"} :
                    carries(rawTx, k) => e[k] # Absent
            /\ e["gasPrice"] # Absent =>
                    ~(carries(rawTx, "maxFeePerGas")
                      \/ carries(rawTx, "maxPriorityFeePerGas"))

\* ------------------------------------------------------------- claims on to_hex
InContract(value) == value.t \in {"none", "int", "str"}

\* C5 as stated: for every input (None, integer, string, other value) to_hex never
\* raises and to_hex(to_hex(x)) = to_hex(x), in both implementations.
C5_IdempotentForEveryInput ==
    /\ hxRes.t # "raise"
    /\ hxRes2 # Unset => hxRes2 = hxRes

\* C5 amended: for every input that is None, an integer or a string, to_hex never
\* raises and to_hex(to_hex(x)) = to_hex(x), in both implementations.
C5_IdempotentOnContract ==
    InContract(hxArg) =>
        /\ hxRes.t # "raise"
        /\ hxRes # Unset => InContract(hxRes)
        /\ hxRes2 # Unset => hxRes2 = hxRes

C5_Witness ==
    /\ hxArg.t = "str"
    /\ int_str(hxArg.s).ok
    /\ hxRes.t = "str"
    /\ hxRes # hxArg
    /\ hxRes2 = hxRes

RECURSIVE HexVal(_)
HexVal(d) ==
    IF d = <<>> THEN 0
    ELSE HexVal(SubSeq(d, 1, Len(d) - 1)) * 16
         + ((CHOOSE i \in 1..16 : HexChars[i] = d[Len(d)]) - 1)

\* str is "0x" (after "-" when n < 0) and the hex digits of |n| without leading zeros
IsMinimalHexOf(str, n) ==
    LET neg == n < 0
        body == IF neg /\ str # <<>> /\ str[1] = "-" THEN Tail(str) ELSE str
        d == SubSeq(body, 3, Len(body))
    IN  /\ neg => (str # <<>> /\ str[1] = "-")
        /\ startswith(body, <<"0", "x">>)
        /\ Len(d) >= 1
        /\ \A i \in 1..Len(d) : d[i] \in HexDigits
        /\ Len(d) = 1 \/ d[1] # "0"
        /\ HexVal(d) = (IF neg THEN -n ELSE n)

ShapeNone == hxArg.t = "none" => hxRes = None
ShapePrefixed ==
    (hxArg.t = "str" /\ startswith(hxArg.s, <<"0", "x">>)) => hxRes = hxArg
ShapeInteger ==
    hxArg.t = "int" => (hxRes.t = "str" /\ IsMinimalHexOf(hxRes.s, hxArg.v))
ShapeNumericString ==
    (hxArg.t = "str" /\ ~startswith(hxArg.s, <<"0", "x">>) /\ int_str(hxArg.s).ok)
        => (hxRes.t = "str" /\ IsMinimalHexOf(hxRes.s, int_str(hxArg.s).v))
ShapeOtherString ==
    (hxArg.t = "str" /\ ~startswith(hxArg.s, <<"0", "x">>) /\ ~int_str(hxArg.s).ok)
        => hxRes = hxArg
ShapeStringForm(value) == hxRes = StrV(str_of(value))

\* C6 as stated: None -> None; a "0x" string unchanged; an integer or a string
\* parseable as an integer -> its minimal-width hex; any other value -> its string
\* form unchanged (both implementations).
C6_ResultByShape ==
    hxRes # Unset =>
        /\ ShapeNone /\ ShapePrefixed /\ ShapeInteger
        /\ ShapeNumericString /\ ShapeOtherString
        /\ hxArg.t \notin {"none", "int", "str"} => ShapeStringForm(hxArg)

\* C6 amended: as stated for None, strings and integers; a value of another type is
\* returned as its string form, except that the Trade Builder's to_hex truncates a
\* finite float to an integer and hex-encodes it and raises on a non-finite float.
C6_ResultByShapeAmended ==
    hxRes # Unset =>
        /\ ShapeNone /\ ShapePrefixed /\ ShapeInteger
        /\ ShapeNumericString /\ ShapeOtherString
        /\ (hxArg.t \in {"float", "nonfinite"} /\ hxImpl = "signer")
                => ShapeStringForm(hxArg)
        /\ (hxArg.t = "float" /\ hxImpl = "trader")
                => (hxRes.t = "str" /\ IsMinimalHexOf(hxRes.s, hxArg.v))
        /\ (hxArg.t = "nonfinite" /\ hxImpl = "trader") => hxRes.t = "raise"
        /\ hxArg.t = "obj" => ShapeStringForm(hxArg)

C6_Witness ==
    /\ hxArg = IntV(255)
    /\ hxRes = StrV(<<"0", "x", "f", "f">>)

\* ------------------------------------------------------------- the trading endpoints
\* One request is served at a time; every action runs the handler from one await
\* to the next.  External calls (resolvers, SDK builders, signer, chain) succeed
\* or raise, as the environment decides.
Err(name) == <<name>>
SignerError(e) == <<"Failed to sign transaction via Privy">> \o e

\* raw transactions the SDK builders return: a typical one, and the first
\* transaction of a wallet (nonce 0)
RawSamples == {TypicalRawTx, [TypicalRawTx EXCEPT !["nonce"] = IntV(0)]}

\* the metadata test inverted
HasNoMetadata(req) ==
    req.pair_index = Null /\ req.trade_index = Null /\ req.entry_price = Null

HasMetadata(req) ==
    req.pair_index # Null /\ req.trade_index # Null /\ req.entry_price # Null

\* which branch of its handler a request takes
Mode(req) ==
    CASE req.op = "build" -> "build"
      [] req.op = "close" -> "close"
      [] req.signed_transaction = Null -> "legacy"
      [] HasMetadata(req) -> "presigned"
      [] OTHER -> "fallback"

BuildRequests ==
    { [NoRequest EXCEPT !.op = "build", !.market_pair = sym, !.side = sd,
                        !.collateral = c, !.leverage = l, !.take_profit_percent = tp]
        : sym \in Symbols, sd \in Sides, c \in Collaterals, l \in Leverages,
          tp \in TakeProfitPercents }
LegacyRequests == {[r EXCEPT !.op = "execute"] : r \in BuildRequests}
\* A signed transaction stands for the open of slot signed_transaction of the
\* request's pair; the metadata fields are those of the build it came from, each
\* present or not.
PresignedRequests ==
    { [r EXCEPT !.signed_transaction = ti, !.pair_index = pi, !.trade_index = mi,
                !.entry_price = ep]
        : r \in {x \in LegacyRequests : x.side = "LONG"}, ti \in Slots,
          pi \in {Null} \cup PairIndexes, mi \in {Null} \cup Slots,
          ep \in {Null} \cup ClientPrices }
CloseRequests ==
    { [NoRequest EXCEPT !.op = "close", !.pair_index = pi, !.trade_index = ti]
        : pi \in PairIndexes, ti \in Slots }
Requests ==
    BuildRequests \cup LegacyRequests
        \cup {r \in PresignedRequests :
                /\ r.pair_index \in {Null, PairIndexOf(r.market_pair)}
                /\ r.trade_index \in {Null, r.signed_transaction}}
        \cup CloseRequests

TradeResult(success, error, ep, pi, ti) ==
    [returned |-> TRUE, success |-> success, error |-> error, entry_price |-> ep,
     pair_index |-> pi, trade_index |-> ti]
HTTPException(status, detail) ==
    [NoResponse EXCEPT !.status = status, !.detail = detail]

locals ==
    <<pair_index, current_price, existing_positions, trade_index, trade_input,
      tx_dict, rpc>>

\* slots below MaxSlot remain for the pair computations of this request
SlotsLeft == \A p \in positions : p.trade_index < MaxSlot
\* the signed transaction was built by an earlier build: its slot is at most one
\* past the slots the pair has used
FromEarlierBuild(req) ==
    \A j \in 0..(req.signed_transaction - 1) :
        Position(PairIndexOf(req.market_pair), j) \in everOpened

Begin(req) ==
    /\ pc = "idle"
    /\ req \in Requests
    /\ request' = req
    /\ result' = NoResult
    /\ raised' = NoError
    /\ existing_positions' = {}
    /\ trade_input' = NoTradeInput
    /\ tx_dict' = NoTx
    /\ rpc' = NoRpc
    /\ UNCHANGED <<hexVars, envVars, listVars, pairsVars, raceVars>>

\* build_transaction / execute_trade (legacy mode) up to asyncio.gather
StartGather(req) ==
    /\ Begin(req)
    /\ Mode(req) \in {"build", "legacy"}
    /\ SlotsLeft
    /\ trader_cache' = trader_cache \cup {CacheKey}
    /\ reads' = [w \in DOMAIN NoReads |-> "pending"]
    /\ pc' = "gather"
    /\ calls' = <<"get_pair_index", "get_latest_price_updates", "get_trades">>
    /\ response' = NoResponse
    /\ pair_index' = Null /\ current_price' = Null /\ trade_index' = Null
    /\ UNCHANGED <<positions, everOpened>>

\* execute_trade with a signed transaction and complete metadata, up to
\* send_transaction in execute_signed_transaction
StartPresigned(req) ==
    /\ Begin(req)
    /\ reads' = NoReads
    /\ Mode(req) = "presigned"
    /\ FromEarlierBuild(req)
    /\ trader_cache' = trader_cache \cup {CacheKey}
    /\ pair_index' = req.pair_index
    /\ trade_index' = req.trade_index
    /\ current_price' = req.entry_price
    /\ pc' = "send_transaction"
    /\ calls' = <<"send_transaction">>
    /\ response' = NoResponse
    /\ UNCHANGED <<positions, everOpened>>

\* execute_trade with a signed transaction and incomplete metadata, up to
\* get_pair_index
StartFallback(req) ==
    /\ Begin(req)
    /\ reads' = NoReads
    /\ Mode(req) = "fallback"
    /\ FromEarlierBuild(req)
    /\ SlotsLeft
    /\ trader_cache' = trader_cache \cup {CacheKey}
    /\ pc' = "get_pair_index"
    /\ calls' = <<"get_pair_index">>
    /\ response' = NoResponse
    /\ pair_index' = Null /\ current_price' = Null /\ trade_index' = Null
    /\ UNCHANGED <<positions, everOpened>>

\* close_trade up to build_trade_close_tx in close_position
StartClose(req) ==
    /\ Begin(req)
    /\ reads' = NoReads
    /\ Mode(req) = "close"
    /\ pair_index' = req.pair_index
    /\ trade_index' = req.trade_index
    /\ current_price' = Null
    /\ pc' = "build_trade_close_tx"
    /\ calls' = <<"build_trade_close_tx">>
    /\ response' = NoResponse
    /\ UNCHANGED <<positions, everOpened, trader_cache>>

\* trader.initialize() raises while the trader is created
StartInitFails(req) ==
    /\ Begin(req)
    /\ reads' = NoReads
    /\ req.op = "close" \/ CacheKey \notin trader_cache
    /\ Mode(req) \in {"build", "legacy", "fallback"} => SlotsLeft
    /\ Mode(req) \in {"presigned", "fallback"} => FromEarlierBuild(req)
    /\ pc' = "done"
    /\ calls' = <<>>
    /\ response' = HTTPException(500, Err("InitError"))
    /\ pair_index' = Null /\ current_price' = Null /\ trade_index' = Null
    /\ UNCHANGED <<positions, everOpened, trader_cache>>

\* An exception leaves the trader method.  open_position, close_position and
\* execute_signed_transaction catch it and return a failed TradeResult, which the
\* endpoint turns into HTTP 400; build_unsigned_transaction and the fallback
\* lookups of execute_trade do not, and the endpoint answers HTTP 500
\* (execute_trade also drops the cached trader).
Raise(err, caught) ==
    /\ raised' = err
    /\ pc' = "done"
    /\ IF caught
       THEN /\ result' = TradeResult(FALSE, err, Null, Null, Null)
            /\ response' = HTTPException(400, err)
            /\ UNCHANGED trader_cache
       ELSE /\ result' = result
            /\ response' = HTTPException(500, err)
            /\ trader_cache' = IF request.op = "execute"
                               THEN trader_cache \ {CacheKey} ELSE trader_cache

ReadError(w) ==
    CASE w = "pair_index" -> Err("PairNotFound")
      [] w = "price" -> Err("PriceUnavailable")
      [] OTHER -> Err("ListTradesFailed")

\* the TradeInput of lines 180-191 / 397-408
MakeTradeInput(req, pi, price, ti) ==
    [pair_index |-> pi, index |-> ti, is_long |-> (req.side = "LONG"),
     collateral_in_trade |-> req.collateral, leverage |-> req.leverage,
     tp |-> take_profit(req.side, price, req.take_profit_percent), sl |-> 0]

\* asyncio.gather over reads settled as rs awaits every read with
\* return_exceptions=True: a failed read is a result like any other
gather_return_exceptions(rs) ==
    IF \E w \in DOMAIN rs : rs[w] = "pending" THEN "pending" ELSE "ok"

\* asyncio.gather over reads settled as rs: it raises as soon as one read has
\* raised and returns when all have returned
gather(rs) ==
    IF \E w \in DOMAIN rs : rs[w] = "fail" THEN "raise"
    ELSE IF \E w \in DOMAIN rs : rs[w] = "pending" THEN "pending"
    ELSE "ok"

\* a gathered read settles (returns a value or raises err): the handler stays
\* suspended, or propagates the exception, or computes take profit and slot from
\* the three values and calls build_trade_open_tx
ReadSettles(w, outcome, pi, cp, ex, err) ==
    /\ pc = "gather"
    /\ reads[w] = "pending"
    /\ reads' = [reads EXCEPT ![w] = outcome]
    /\ pair_index' = pi
    /\ current_price' = cp
    /\ existing_positions' = ex
    /\ CASE gather(reads') = "raise" ->
              /\ Raise(err, Mode(request) = "legacy")
              /\ UNCHANGED <<trade_index, trade_input, calls>>
         [] gather(reads') = "pending" ->
              UNCHANGED <<trade_index, trade_input, pc, calls, result, response,
                          raised, trader_cache>>
         [] OTHER ->
              /\ trade_index' = next_slot(ex, pi)
              /\ trade_input' = MakeTradeInput(request, pi, cp, next_slot(ex, pi))
              /\ pc' = "build_trade_open_tx"
              /\ calls' = Append(calls, "build_trade_open_tx")
              /\ UNCHANGED <<result, response, raised, trader_cache>>
    /\ UNCHANGED <<positions, everOpened, request, tx_dict, rpc>>
    /\ UNCHANGED <<hexVars, envVars, listVars, pairsVars, raceVars>>

ReadOk(w) ==
    \E price \in FeedPrices :
        ReadSettles(w, "ok",
                    IF w = "pair_index" THEN PairIndexOf(request.market_pair)
                    ELSE pair_index,
                    IF w = "price" THEN price ELSE current_price,
                    IF w = "positions" THEN positions ELSE existing_positions,
                    NoError)

ReadFails(w) ==
    ReadSettles(w, "fail", pair_index, current_price, existing_positions,
                ReadError(w))

\* build_trade_open_tx returns; build normalises and answers, open_position
\* hands the raw dict to sign_transaction, which posts its own params
BuildOpenOk(raw) ==
    /\ pc = "build_trade_open_tx"
    /\ raw \in RawSamples
    /\ tx_dict' = raw
    /\ IF Mode(request) = "build"
       THEN LET env == eip1559_tx(raw)
            IN  /\ pc' = "done"
                /\ response' =
                     IF env.ok
                     THEN [status |-> 200, detail |-> NoError, transaction |-> env.tx,
                           pair_index |-> pair_index, trade_index |-> trade_index,
                           entry_price |-> current_price]
                     ELSE HTTPException(500, Err("AttributeError"))
                /\ UNCHANGED <<rpc, calls, result, raised, trader_cache>>
       ELSE LET params == rpc_params(raw)
            IN  IF params.ok
                THEN /\ rpc' = params.tx
                     /\ pc' = "privy_rpc"
                     /\ calls' = Append(calls, "privy_rpc")
                     /\ UNCHANGED <<result, response, raised, trader_cache>>
                ELSE /\ Raise(SignerError(Err("AttributeError")), TRUE)
                     /\ UNCHANGED <<rpc, calls>>
    /\ UNCHANGED <<positions, everOpened, request, reads, pair_index, current_price,
                   existing_positions, trade_index, trade_input>>
    /\ UNCHANGED <<hexVars, envVars, listVars, pairsVars, raceVars>>

BuildOpenFails ==
    /\ pc = "build_trade_open_tx"
    /\ Raise(Err("BuildError"), Mode(request) = "legacy")
    /\ UNCHANGED <<positions, everOpened, request, reads, locals, calls>>
    /\ UNCHANGED <<hexVars, envVars, listVars, pairsVars, raceVars>>

\* the fallback lookups of execute_trade, lines 297-312
FallbackPairOk ==
    /\ pc = "get_pair_index"
    /\ pair_index' = PairIndexOf(request.market_pair)
    /\ pc' = "get_trades"
    /\ calls' = Append(calls, "get_trades")
    /\ UNCHANGED <<chainVars, request, reads, current_price, existing_positions,
                   trade_index, trade_input, tx_dict, rpc, result, response, raised>>
    /\ UNCHANGED <<hexVars, envVars, listVars, pairsVars, raceVars>>

FallbackPositionsOk ==
    /\ pc = "get_trades"
    /\ existing_positions' = positions
    /\ trade_index' = next_slot(positions, pair_index)
    /\ pc' = "get_latest_price_updates"
    /\ calls' = Append(calls, "get_latest_price_updates")
    /\ UNCHANGED <<chainVars, request, reads, pair_index, current_price, trade_input,
                   tx_dict, rpc, result, response, raised>>
    /\ UNCHANGED <<hexVars, envVars, listVars, pairsVars, raceVars>>

FallbackPriceOk ==
    /\ pc = "get_latest_price_updates"
    /\ current_price' \in FeedPrices
    /\ pc' = "send_transaction"
    /\ calls' = Append(calls, "send_transaction")
    /\ UNCHANGED <<chainVars, request, reads, pair_index, existing_positions,
                   trade_index, trade_input, tx_dict, rpc, result, response, raised>>
    /\ UNCHANGED <<hexVars, envVars, listVars, pairsVars, raceVars>>

FallbackFails ==
    /\ pc \in {"get_pair_index", "get_trades", "get_latest_price_updates"}
    /\ Raise(CASE pc = "get_pair_index" -> Err("PairNotFound")
               [] pc = "get_trades" -> Err("ListTradesFailed")
               [] OTHER -> Err("PriceUnavailable"), FALSE)
    /\ UNCHANGED <<positions, everOpened, request, reads, locals, calls>>
    /\ UNCHANGED <<hexVars, envVars, listVars, pairsVars, raceVars>>

\* close_position: build_trade_close_tx returns, sign_transaction posts its params
BuildCloseOk(raw) ==
    /\ pc = "build_trade_close_tx"
    /\ raw \in RawSamples
    /\ tx_dict' = raw
    /\ LET params == rpc_params(raw)
       IN  IF params.ok
           THEN /\ rpc' = params.tx
                /\ pc' = "privy_rpc"
                /\ calls' = Append(calls, "privy_rpc")
                /\ UNCHANGED <<result, response, raised, trader_cache>>
           ELSE /\ Raise(SignerError(Err("AttributeError")), TRUE)
                /\ UNCHANGED <<rpc, calls>>
    /\ UNCHANGED <<positions, everOpened, request, reads, pair_index, current_price,
                   existing_positions, trade_index, trade_input>>
    /\ UNCHANGED <<hexVars, envVars, listVars, pairsVars, raceVars>>

BuildCloseFails ==
    /\ pc = "build_trade_close_tx"
    /\ Raise(Err("BuildError"), TRUE)
    /\ UNCHANGED <<positions, everOpened, request, reads, locals, calls>>
    /\ UNCHANGED <<hexVars, envVars, listVars, pairsVars, raceVars>>

\* the external calls that put a transaction on the chain: send_transaction, and
\* the signer request, whose method is eth_sendTransaction ("signs and sends")
SendsToChain(call) == call \in {"privy_rpc", "send_transaction"}

\* a close that leaves the position on the chain
BroadcastKeepsPosition(ps) ==
    IF Mode(request) = "close" THEN ps
    ELSE IF Mode(request) = "legacy"
         THEN ps \cup {Position(pair_index, trade_index)}
         ELSE ps \cup {Position(PairIndexOf(request.market_pair),
                                request.signed_transaction)}

\* what the chain does with a transaction of this request once it is broadcast:
\* an open takes its slot when the slot is free, a close frees it
Broadcast(ps) ==
    LET p == IF Mode(request) = "close" THEN Position(pair_index, trade_index)
             ELSE IF Mode(request) = "legacy" THEN Position(pair_index, trade_index)
             ELSE Position(PairIndexOf(request.market_pair), request.signed_transaction)
    IN  IF Mode(request) = "close" THEN ps \ {p} ELSE ps \cup {p}

\* the signer answers: its method eth_sendTransaction has signed and sent the
\* transaction; the handler goes on to send_transaction
SignOk ==
    /\ pc = "privy_rpc"
    /\ positions' = Broadcast(positions)
    /\ everOpened' = everOpened \cup positions'
    /\ pc' = "send_transaction"
    /\ calls' = Append(calls, "send_transaction")
    /\ UNCHANGED <<trader_cache, request, reads, locals, result, response, raised>>
    /\ UNCHANGED <<hexVars, envVars, listVars, pairsVars, raceVars>>

SignFails ==
    /\ pc = "privy_rpc"
    /\ Raise(SignerError(Err("HTTPError")), TRUE)
    /\ UNCHANGED <<positions, everOpened, request, reads, locals, calls>>
    /\ UNCHANGED <<hexVars, envVars, listVars, pairsVars, raceVars>>

\* send_transaction returns a receipt.  A signed transaction from the client is
\* broadcast here, and the chain takes it only if its slot is free.
SubmitOk ==
    /\ pc = "send_transaction"
    /\ IF Mode(request) \in {"presigned", "fallback"}
       THEN /\ Position(PairIndexOf(request.market_pair), request.signed_transaction)
                \notin positions
            /\ positions' = Broadcast(positions)
            /\ everOpened' = everOpened \cup positions'
       ELSE UNCHANGED <<positions, everOpened>>
    /\ result' = IF Mode(request) = "close"
                 THEN TradeResult(TRUE, NoError, Null, Null, Null)
                 ELSE TradeResult(TRUE, NoError, current_price, pair_index, trade_index)
    /\ response' = [NoResponse EXCEPT !.status = 200,
                                      !.pair_index = result'.pair_index,
                                      !.trade_index = result'.trade_index,
                                      !.entry_price = result'.entry_price]
    /\ pc' = "done"
    /\ UNCHANGED <<trader_cache, request, reads, locals, calls, raised>>
    /\ UNCHANGED <<hexVars, envVars, listVars, pairsVars, raceVars>>

SubmitFails ==
    /\ pc = "send_transaction"
    /\ Raise(Err("SubmissionError"), TRUE)
    /\ UNCHANGED <<positions, everOpened, request, reads, locals, calls>>
    /\ UNCHANGED <<hexVars, envVars, listVars, pairsVars, raceVars>>

\* the endpoint hands its response to the client and the request context is gone
Respond ==
    /\ pc = "done"
    /\ request' = NoRequest
    /\ pc' = "idle"
    /\ reads' = NoReads
    /\ pair_index' = Null
    /\ current_price' = Null
    /\ existing_positions' = {}
    /\ trade_index' = Null
    /\ trade_input' = NoTradeInput
    /\ tx_dict' = NoTx
    /\ rpc' = NoRpc
    /\ result' = NoResult
    /\ response' = NoResponse
    /\ calls' = <<>>
    /\ raised' = NoError
    /\ UNCHANGED <<chainVars, hexVars, envVars, listVars, pairsVars, raceVars>>

\* a position closes on chain (take profit, liquidation)
ChainClose(p) ==
    /\ p \in positions
    /\ positions' = positions \ {p}
    /\ UNCHANGED <<everOpened, trader_cache, reqVars>>
    /\ UNCHANGED <<hexVars, envVars, listVars, pairsVars, raceVars>>

Init == HexIdle /\ EnvIdle /\ TradeIdle /\ ListIdle /\ PairsIdle /\ RaceIdle

Next ==
    \/ \E req \in Requests : StartGather(req)
    \/ \E req \in Requests : StartPresigned(req)
    \/ \E req \in Requests : StartFallback(req)
    \/ \E req \in Requests : StartClose(req)
    \/ \E req \in Requests : StartInitFails(req)
    \/ \E w \in DOMAIN NoReads : ReadOk(w)
    \/ \E w \in DOMAIN NoReads : ReadFails(w)
    \/ \E raw \in RawSamples : BuildOpenOk(raw)
    \/ BuildOpenFails
    \/ \E raw \in RawSamples : BuildCloseOk(raw)
    \/ BuildCloseFails
    \/ FallbackPairOk
    \/ FallbackPositionsOk
    \/ FallbackPriceOk
    \/ FallbackFails
    \/ SignOk
    \/ SignFails
    \/ SubmitOk
    \/ SubmitFails
    \/ Respond
    \/ \E p \in positions : ChainClose(p)

Spec == Init /\ [][Next]_vars

\* ------------------------------------------------------------- claims on the endpoints
Resolvers == {"get_pair_index", "get_latest_price_updates", "get_trades"}

\* the handler has computed a slot from the positions it read
SlotComputed ==
    /\ request.op \in {"build", "execute"}
    /\ ~(request.signed_transaction # Null /\ request.trade_index # Null
            /\ request.pair_index # Null /\ request.entry_price # Null)
    /\ trade_index # Null

SamePair == {p \in existing_positions : p.pair_index = pair_index}

\* C1: the slot computed for a pair is 0 when none of the positions read belongs
\* to the pair, otherwise one more than the highest trade index among those that
\* do; it is never the trade index of a position read for that pair.
C1_NextSlot ==
    SlotComputed =>
        /\ SamePair = {} => trade_index = 0
        /\ SamePair # {} =>
              \E p \in SamePair :
                  /\ trade_index = p.trade_index + 1
                  /\ \A q \in SamePair : q.trade_index <= p.trade_index
        /\ \A q \in SamePair : q.trade_index # trade_index

C1_Witness ==
    /\ SlotComputed
    /\ Position(pair_index, 1) \in existing_positions
    /\ Position(pair_index, 0) \notin existing_positions
    /\ \E q \in existing_positions : q.pair_index # pair_index
    /\ trade_index = 2

\* C2 as stated: whenever a slot is computed for a pair, no position of that
\* pair has ever been opened at that slot.
C2_NeverReused ==
    [][(SlotComputed' /\ trade_index' # trade_index)
          => Position(pair_index', trade_index') \notin everOpened]_vars

\* C2: the slot computation fills no gap: the slot computed is above every slot the
\* pair holds among the positions read, so a slot used before is computed again
\* only when the positions read hold neither it nor a higher slot of the pair.
C2_NoGapFilling ==
    SlotComputed =>
        /\ \A q \in SamePair : q.trade_index < trade_index
        /\ Position(pair_index, trade_index) \in everOpened =>
              \A q \in SamePair : ~(q.trade_index >= trade_index)
        /\ \A ti \in 0..(trade_index - 1) :
              Position(pair_index, ti) \notin existing_positions =>
                  \E q \in SamePair : q.trade_index > ti

C2_Witness ==
    /\ SlotComputed
    /\ Position(pair_index, 0) \in everOpened \ existing_positions
    /\ Position(pair_index, 1) \in existing_positions
    /\ trade_index = 2

\* C7: when a resolver, the trade-construction call, the signer or the chain
\* submission raises while a trade is executed or closed, the operation returns a
\* TradeResult with success = false and the exception's message as its error.
C7_NoExceptionEscapes ==
    (request.op \in {"execute", "close"} /\ raised # NoError) =>
        /\ result.returned
        /\ ~result.success
        /\ result.error = raised

\* C8: when one of the three reads of a build fails, the build fails with that
\* read's error, build_trade_open_tx is not called for the request, and neither a
\* transaction nor metadata is returned.
C8_ReadFailureFailsBuild ==
    \A w \in DOMAIN NoReads :
        (request.op = "build" /\ reads[w] = "fail") =>
            /\ pc = "done"
            /\ response.status = 500
            /\ response.detail = ReadError(w)
            /\ \A i \in DOMAIN calls : calls[i] # "build_trade_open_tx"
            /\ tx_dict = NoTx
            /\ response.transaction = NoResponse.transaction
            /\ response.pair_index = Null
            /\ response.trade_index = Null
            /\ response.entry_price = Null

C8_Witness ==
    /\ request.op = "build"
    /\ reads["pair_index"] = "ok"
    /\ reads["positions"] = "ok"
    /\ reads["price"] = "fail"
    /\ response.status = 500

\* C9: execute_trade with a signed transaction and all of pair_index, trade_index
\* and entry_price calls no resolver; the first external call it makes is
\* send_transaction.
C9_PresignedSkipsResolvers ==
    (/\ request.op = "execute"
     /\ request.signed_transaction # Null
     /\ request.pair_index # Null
     /\ request.trade_index # Null
     /\ request.entry_price # Null) =>
        /\ \A i \in DOMAIN calls : calls[i] \notin Resolvers
        /\ calls # <<>> => calls[1] = "send_transaction"

C9_Witness ==
    /\ request.op = "execute"
    /\ request.signed_transaction # Null
    /\ request.pair_index # Null
    /\ request.trade_index # Null
    /\ request.entry_price # Null
    /\ pc = "done"
    /\ result.success
    /\ calls = <<"send_transaction">>

\* C10: in the server-signed path the parameters posted to the signer are the
\* envelope build returns for the same raw transaction and the same pair, slot
\* and take profit, and send_transaction is called only after the signer call.
C10_SignerGetsBuiltEnvelope ==
    (/\ request.op = "execute"
     /\ request.signed_transaction = Null
     /\ \E i \in DOMAIN calls : calls[i] = "privy_rpc") =>
        /\ rpc = eip1559_tx(tx_dict).tx
        /\ trade_input = MakeTradeInput(request, pair_index, current_price,
                                        next_slot(existing_positions, pair_index))
        /\ \A i \in DOMAIN calls :
              calls[i] = "send_transaction" =>
                  \E j \in 1..(i - 1) : calls[j] = "privy_rpc"

\* C11: when an execute_trade request has ended in failure, the trader of its
\* (user, wallet) key is no longer in the trader cache.
C11_FailureEvicts ==
    (request.op = "execute" /\ pc = "done" /\ response.status # 200) =>
        CacheKey \notin trader_cache

\* C16: the take profit handed to build_trade_open_tx is
\* current_price * (1 + percent/100) for a long and current_price * (1 - percent/100)
\* for a short: 300 and -100 for price 100 and 200 percent.
C16_TakeProfit ==
    trade_input # NoTradeInput =>
        /\ trade_input.is_long = (request.side = "LONG")
        /\ trade_input.is_long =>
              100 * trade_input.tp = current_price * (100 + request.take_profit_percent)
        /\ ~trade_input.is_long =>
              100 * trade_input.tp = current_price * (100 - request.take_profit_percent)
        /\ (current_price = 100 /\ request.take_profit_percent = 200) =>
              trade_input.tp = IF trade_input.is_long THEN 300 ELSE -100

C16_Witness ==
    /\ request.op = "execute"
    /\ pc = "build_trade_open_tx"
    /\ request.side = "SHORT"
    /\ current_price = 100
    /\ trade_input.tp = -100

CloseCalls == <<"build_trade_close_tx", "privy_rpc", "send_transaction">>

C20_SentAtMostOnce ==
    request.op \in {"execute", "close"} =>
        /\ Cardinality({i \in DOMAIN calls : SendsToChain(calls[i])}) <= 1
        /\ raised = Err("SubmissionError") =>
              (pc = "done" /\ ~result.success
                 /\ calls[Len(calls)] = "send_transaction")

\* ------------------------------------------------------------- trade records (get_trades)
\* A raw trade is an object with attributes or a mapping with keys; a[k] is the
\* value of attribute/key k, Absent when the record does not have it.  Prices and
\* amounts are integers (floats with integral value); a profit is a fraction.
TradeAttrs ==
    {"pair_index", "pairIndex", "trade_index", "tradeIndex", "close_price",
     "exit_price", "is_closed", "status", "collateral_in_trade", "open_collateral",
     "open_price", "leverage", "is_long"}

UpperChars == <<"A", "B", "C", "D", "E", "F", "G", "H", "I", "J", "K", "L", "M",
                "N", "O", "P", "Q", "R", "S", "T", "U", "V", "W", "X", "Y", "Z">>
LowerChars == <<"a", "b", "c", "d", "e", "f", "g", "h", "i", "j", "k", "l", "m",
                "n", "o", "p", "q", "r", "s", "t", "u", "v", "w", "x", "y", "z">>
\* str.lower()
lower(str) ==
    [i \in 1..Len(str) |->
        IF \E j \in 1..26 : UpperChars[j] = str[i]
        THEN LowerChars[CHOOSE j \in 1..26 : UpperChars[j] = str[i]]
        ELSE str[i]]

\* the statuses that mean closed, line 631
ClosedVocabulary ==
    { <<"c", "l", "o", "s", "e", "d">>,
      <<"l", "i", "q", "u", "i", "d", "a", "t", "e", "d">>,
      <<"s", "e", "t", "t", "l", "e", "d">> }

RECURSIVE GCD(_, _)
GCD(m, n) == IF n = 0 THEN m ELSE GCD(n, m % n)
Abs(n) == IF n < 0 THEN -n ELSE n
\* the fraction n/d in lowest terms, d > 0
Rat(n, d) ==
    LET g == GCD(Abs(n), Abs(d))
        sg == IF d < 0 THEN -1 ELSE 1
    IN  [n |-> sg * (n \div g), d |-> sg * (d \div g)]
Zero == Rat(0, 1)

\* getattr(trade, name, None) and hasattr(trade, name): a mapping has no attributes
getattr(trade, name) ==
    IF trade.shape = "object" /\ trade.a[name] # Absent THEN trade.a[name] ELSE None
hasattr(trade, name) == trade.shape = "object" /\ trade.a[name] # Absent

\* int(value) as lines 577-589 use it: None when int() raises
int_or_none(value) ==
    CASE value.t \in {"int", "bool", "float"} -> IntV(value.v)
      [] value.t = "str" ->
            IF int_str(value.s).ok THEN IntV(int_str(value.s).v) ELSE None
      [] OTHER -> None

\* float(value) on integral values: [ok |-> FALSE] stands for the exception
float_of(value) ==
    CASE value.t \in {"int", "bool", "float"} -> [ok |-> TRUE, v |-> value.v]
      [] value.t = "str" -> int_str(value.s)
      [] OTHER -> [ok |-> FALSE, v |-> 0]

\* lines 524-569 for one index: the direct attribute, then the record as a
\* mapping (snake then camel key), then the camelCase attribute
extract(trade, snake, camel) ==
    LET direct == getattr(trade, snake)
        trade_dict == \E k \in TradeAttrs : trade.a[k] # Absent
        viaDict ==
            IF ~trade_dict THEN None
            ELSE IF get(trade.a, snake) # None THEN get(trade.a, snake)
            ELSE get(trade.a, camel)
    IN  IF direct # None THEN direct
        ELSE IF viaDict # None THEN viaDict
        ELSE getattr(trade, camel)

extract_pair_index(trade) ==
    LET found == extract(trade, "pair_index", "pairIndex")
    IN  IF found = None /\ trade.shape = "dict"
        THEN int_or_none(get(trade.a, "pair_index"))
        ELSE int_or_none(found)

\* line 567 sets trade_index again when the pair index is still missing
extract_trade_index(trade) ==
    LET found == extract(trade, "trade_index", "tradeIndex")
    IN  IF extract(trade, "pair_index", "pairIndex") = None /\ trade.shape = "dict"
        THEN int_or_none(get(trade.a, "trade_index"))
        ELSE int_or_none(found)

present(trade, name) == hasattr(trade, name) /\ getattr(trade, name) # None

\* a classifier that consults the status string before anything else
closed_status_by_status(trade) ==
    IF hasattr(trade, "status")
    THEN [closed |-> lower(str_of(getattr(trade, "status"))) \in ClosedVocabulary,
          exit_price |-> None]
    ELSE IF present(trade, "close_price")
    THEN [closed |-> TRUE,
          exit_price |-> IntV(float_of(getattr(trade, "close_price")).v)]
    ELSE [closed |-> FALSE, exit_price |-> None]

\* lines 612-638: [closed, exit_price]; exit_price is None or an integer value
closed_status(trade) ==
    LET cit == IF present(trade, "collateral_in_trade")
               THEN IntV(float_of(getattr(trade, "collateral_in_trade")).v) ELSE None
        oc  == IF present(trade, "open_collateral")
               THEN IntV(float_of(getattr(trade, "open_collateral")).v) ELSE None
    IN  IF present(trade, "close_price")
        THEN [closed |-> TRUE,
              exit_price |-> IntV(float_of(getattr(trade, "close_price")).v)]
        ELSE IF present(trade, "exit_price")
        THEN [closed |-> TRUE,
              exit_price |-> IntV(float_of(getattr(trade, "exit_price")).v)]
        ELSE IF hasattr(trade, "is_closed")
        THEN [closed |-> truthy(getattr(trade, "is_closed")), exit_price |-> None]
        ELSE IF hasattr(trade, "status")
        THEN [closed |-> lower(str_of(getattr(trade, "status"))) \in ClosedVocabulary,
              exit_price |-> None]
        ELSE IF cit # None /\ cit.v = 0
        THEN [closed |-> TRUE, exit_price |-> None]
        ELSE IF oc # None /\ oc.v = 0
        THEN [closed |-> TRUE, exit_price |-> None]
        ELSE [closed |-> FALSE, exit_price |-> None]

\* line 662
entry_price_of(trade) ==
    IF hasattr(trade, "open_price") /\ truthy(getattr(trade, "open_price"))
    THEN float_of(getattr(trade, "open_price")).v ELSE 0
\* line 697
open_collateral_of(trade) ==
    IF present(trade, "open_collateral")
    THEN float_of(getattr(trade, "open_collateral")).v ELSE 0
\* line 698
leverage_of(trade) ==
    IF hasattr(trade, "leverage") THEN int_or_none(getattr(trade, "leverage")).v ELSE 75
\* line 699
is_long_of(trade) ==
    IF hasattr(trade, "is_long") THEN truthy(getattr(trade, "is_long")) ELSE TRUE

\* (exit - entry) / entry whatever the direction
price_change_long_only(is_long, entry, exit) == Rat(exit - entry, entry)

\* lines 709-712
price_change(is_long, entry, exit) ==
    IF is_long THEN Rat(exit - entry, entry) ELSE Rat(entry - exit, entry)

\* lines 693-716: [pnl, pnl_percent]
profit(trade) ==
    LET cs == closed_status(trade)
        entry == entry_price_of(trade)
    IN  IF cs.closed /\ truthy(cs.exit_price) /\ entry > 0
        THEN LET pc_ == price_change(is_long_of(trade), entry, cs.exit_price.v)
             IN  [pnl |-> Rat(open_collateral_of(trade) * leverage_of(trade) * pc_.n,
                              pc_.d),
                  pnl_percent |-> Rat(pc_.n * leverage_of(trade) * 100, pc_.d)]
        ELSE [pnl |-> Zero, pnl_percent |-> Zero]

\* a float() or int() of lines 617-698 and 763 raises; the except of line 777
\* skips the record
raises(trade) ==
    \/ \E k \in {"collateral_in_trade", "open_collateral"} :
            present(trade, k) /\ ~float_of(getattr(trade, k)).ok
    \/ present(trade, "close_price") /\ ~float_of(getattr(trade, "close_price")).ok
    \/ /\ ~present(trade, "close_price")
       /\ present(trade, "exit_price")
       /\ ~float_of(getattr(trade, "exit_price")).ok
    \/ /\ hasattr(trade, "open_price")
       /\ truthy(getattr(trade, "open_price"))
       /\ ~float_of(getattr(trade, "open_price")).ok
    \/ hasattr(trade, "leverage") /\ int_or_none(getattr(trade, "leverage")) = None
    \/ /\ ~present(trade, "open_collateral")
       /\ hasattr(trade, "collateral_in_trade")
       /\ getattr(trade, "collateral_in_trade") = None

\* the pairs the market data reports as not open, as keys of pairInfos
ClosedMarkets == {<<"0">>}

\* lines 718-736: with a 200 answer the handler's pair_index is set again from the
\* record's attribute; any failure leaves it alone and the market counts as open
pair_index_after_market(trade, mkt) ==
    IF mkt = "200" THEN getattr(trade, "pair_index") ELSE extract_pair_index(trade)
market_is_open(trade, mkt) ==
    ~(/\ mkt = "200"
      /\ getattr(trade, "pair_index") # None
      /\ str_of(getattr(trade, "pair_index")) \in ClosedMarkets)

\* pairs_map.get(pair_index), line 606
reverse_lookup(pm, index) == IF index \in DOMAIN pm THEN StrV(pm[index]) ELSE None

\* lines 603-608
pair_name_of(trade, pm) ==
    LET pi == extract_pair_index(trade)
    IN  IF pi # None THEN reverse_lookup(pm, pi.v) ELSE None

NoRecord ==
    [pair_index |-> None, trade_index |-> None, direction |-> "", collateral |-> 0,
     leverage |-> 0, entry_price |-> 0, exit_price |-> None, status |-> "",
     pair_name |-> None, pnl |-> Zero, pnl_percent |-> Zero, market_is_open |-> TRUE]

\* one iteration of the loop of lines 465-783: [kept, rec]
format_trade(trade, mkt, pm) ==
    IF raises(trade) THEN [kept |-> FALSE, rec |-> NoRecord]
    ELSE IF pair_index_after_market(trade, mkt) = None
            \/ extract_trade_index(trade) = None
    THEN [kept |-> FALSE, rec |-> NoRecord]
    ELSE [kept |-> TRUE,
          rec |-> [pair_index |-> pair_index_after_market(trade, mkt),
                   trade_index |-> extract_trade_index(trade),
                   direction |-> IF is_long_of(trade) THEN "long" ELSE "short",
                   collateral |->
                      IF present(trade, "open_collateral")
                      THEN open_collateral_of(trade)
                      ELSE IF hasattr(trade, "collateral_in_trade")
                      THEN float_of(getattr(trade, "collateral_in_trade")).v
                      ELSE 0,
                   leverage |-> leverage_of(trade),
                   entry_price |-> entry_price_of(trade),
                   exit_price |-> closed_status(trade).exit_price,
                   status |-> IF closed_status(trade).closed THEN "closed"
                              ELSE "active",
                   pair_name |-> pair_name_of(trade, pm),
                   pnl |-> profit(trade).pnl,
                   pnl_percent |-> profit(trade).pnl_percent,
                   market_is_open |-> market_is_open(trade, mkt)]]

\* ------------------------------------------------------------- get_trades applied
MaxTrades == 2

\* a trade as the SDK returns it for an open long position
TypicalTrade ==
    [shape |-> "object",
     a |-> [k \in TradeAttrs |->
              CASE k = "pair_index" -> IntV(1)
                [] k = "trade_index" -> IntV(0)
                [] k = "collateral_in_trade" -> IntV(50)
                [] k = "open_collateral" -> IntV(50)
                [] k = "open_price" -> IntV(100)
                [] k = "leverage" -> IntV(10)
                [] k = "is_long" -> BoolV(TRUE)
                [] OTHER -> Absent]]

\* TypicalTrade with the attributes of f set as f says
With(f) ==
    [TypicalTrade EXCEPT !.a = [k \in TradeAttrs |->
                                  IF k \in DOMAIN f THEN f[k] ELSE @[k]]]
AsDict(trade) == [trade EXCEPT !.shape = "dict"]

IndexVals == {Absent, None, IntV(0), StrV(<<"1">>), StrV(<<"a">>)}

\* records that differ in how they expose one index, as objects and as mappings
IndexTrades ==
    { With([pair_index |-> x, pairIndex |-> y]) : x \in IndexVals, y \in IndexVals }
    \cup
    { AsDict(With([pair_index |-> x, pairIndex |-> y]))
        : x \in IndexVals, y \in {Absent, IntV(0)} }
    \cup
    { With([trade_index |-> x, tradeIndex |-> y])
        : x \in IndexVals \ {StrV(<<"1">>)}, y \in IndexVals \ {StrV(<<"1">>)} }
    \cup
    { AsDict(With([trade_index |-> x])) : x \in IndexVals }

\* records that differ in their closed indicators
ClosedTrades ==
    { With([close_price |-> cp, exit_price |-> ep, is_closed |-> ic, status |-> st])
        : cp \in {Absent, None, IntV(150)},
          ep \in {Absent, IntV(120)},
          ic \in {Absent, BoolV(TRUE), BoolV(FALSE)},
          st \in {Absent, StrV(<<"o", "p", "e", "n">>)} }
    \cup
    { With([is_closed |-> BoolV(FALSE), status |-> StrV(<<"c", "l", "o", "s", "e", "d">>)]),
      With([is_closed |-> BoolV(FALSE), collateral_in_trade |-> IntV(0)]),
      With([is_closed |-> None, collateral_in_trade |-> IntV(0)]) }
    \cup
    { With([status |-> st, collateral_in_trade |-> cit, open_collateral |-> oc])
        : st \in {Absent, StrV(<<"o", "p", "e", "n">>),
                  StrV(<<"C", "L", "O", "S", "E", "D">>),
                  StrV(<<"c", "l", "o", "s", "e", "d">>),
                  StrV(<<"l", "i", "q", "u", "i", "d", "a", "t", "e", "d">>),
                  StrV(<<"s", "e", "t", "t", "l", "e", "d">>)},
          cit \in {IntV(0), IntV(50)},
          oc \in {Absent, IntV(0)} }

\* closed records that differ in what their profit is computed from, and two
\* records whose conversion raises
ProfitTrades ==
    { With([close_price |-> cp, open_price |-> op, is_long |-> il])
        : cp \in {IntV(150), IntV(50), IntV(0)},
          op \in {Absent, IntV(0), IntV(100)},
          il \in {BoolV(TRUE), BoolV(FALSE)} }
    \cup
    { With([close_price |-> IntV(150), open_collateral |-> oc, leverage |-> lv])
        : oc \in {Absent, None, IntV(50)}, lv \in {Absent, IntV(10)} }
    \cup
    { With([close_price |-> StrV(<<"a">>)]), With([leverage |-> None]) }

RawTrades == IndexTrades \cup ClosedTrades \cup ProfitTrades

\* what get_pairs_cache may return to the loop
PairsMaps == {EmptyMap, (0 :> <<"B", "T", "C", "/", "U", "S", "D">>)}

ListStart ==
    /\ list_pc = "idle"
    /\ list_pc' = "get_trades"
    /\ trader_cache' = trader_cache \cup {CacheKey}
    /\ UNCHANGED <<n_trades, raw_trades, market_status, formatted_trades, origin,
                   list_response>>
    /\ UNCHANGED <<positions, everOpened, reqVars, hexVars, envVars, pairsVars, raceVars>>

\* client.trade.get_trades returns n trades
ListFetched(n) ==
    /\ list_pc = "get_trades"
    /\ n \in 0..MaxTrades
    /\ n_trades' = n
    /\ list_pc' = IF n = 0 THEN "return" ELSE "loop"
    /\ UNCHANGED <<raw_trades, market_status, formatted_trades, origin, list_response>>
    /\ UNCHANGED <<tradeVars, hexVars, envVars, pairsVars, raceVars>>

\* trader.initialize() or client.trade.get_trades raises: HTTP 500, lines 839-844
ListFetchFails ==
    /\ list_pc \in {"idle", "get_trades"}
    /\ list_pc' = "done"
    /\ list_response' = [NoListResponse EXCEPT !.status = 500]
    /\ UNCHANGED <<n_trades, raw_trades, market_status, formatted_trades, origin>>
    /\ UNCHANGED <<tradeVars, hexVars, envVars, pairsVars, raceVars>>

\* a loop that stops at the first record whose normalization raises
abort_on_error(failed, last) == IF failed \/ last THEN "return" ELSE "loop"

\* lines 465 and 777-783: the except clause continues with the next record
next_record(failed, last) == IF last THEN "return" ELSE "loop"

\* one iteration of the loop over trades; the record, the answer of the
\* market-status call and the pairs mapping are drawn when the loop reaches them
FormatTrade(trade, mkt, pm) ==
    /\ list_pc = "loop"
    /\ trade \in RawTrades
    /\ raw_trades' = Append(raw_trades, trade)
    /\ market_status' = Append(market_status, mkt)
    /\ LET f == format_trade(trade, mkt, pm)
       IN  IF f.kept
           THEN /\ formatted_trades' = Append(formatted_trades, f.rec)
                /\ origin' = Append(origin, Len(raw_trades) + 1)
           ELSE UNCHANGED <<formatted_trades, origin>>
    /\ list_pc' = next_record(raises(trade), Len(raw_trades) + 1 = n_trades)
    /\ UNCHANGED <<n_trades, list_response>>
    /\ UNCHANGED <<tradeVars, hexVars, envVars, pairsVars, raceVars>>

\* lines 785-835
ListReturn ==
    /\ list_pc = "return"
    /\ list_pc' = "done"
    /\ list_response' =
         [status |-> 200,
          trades |-> formatted_trades,
          active_trades |-> SelectSeq(formatted_trades, LAMBDA r : r.status = "active"),
          closed_trades |-> SelectSeq(formatted_trades, LAMBDA r : r.status = "closed")]
    /\ UNCHANGED <<n_trades, raw_trades, market_status, formatted_trades, origin>>
    /\ UNCHANGED <<tradeVars, hexVars, envVars, pairsVars, raceVars>>

ListInit == HexIdle /\ EnvIdle /\ TradeIdle /\ ListIdle /\ PairsIdle /\ RaceIdle

ListNext ==
    \/ ListStart
    \/ \E n \in 0..MaxTrades : ListFetched(n)
    \/ ListFetchFails
    \/ \E trade \in RawTrades, mkt \in {"200", "fail"}, pm \in PairsMaps :
            FormatTrade(trade, mkt, pm)
    \/ ListReturn

SpecTrades == ListInit /\ [][ListNext]_vars

\* ------------------------------------------------------------- claims on get_trades
\* both indices of a raw record resolve to a non-None integer
Resolved(trade) ==
    extract_pair_index(trade) # None /\ extract_trade_index(trade) # None

\* the raw records that produced a record of the response
Listed == { origin[j] : j \in DOMAIN list_response.trades }

\* C12: a raw record is in the response (trades, and with it exactly one of
\* active_trades and closed_trades) if and only if both its indices resolved,
\* and the record carries the resolved integers, 0 included.
C12_DropRule ==
    list_response.status = 200 =>
        /\ \A i \in DOMAIN raw_trades : i \in Listed <=> Resolved(raw_trades[i])
        /\ \A j \in DOMAIN list_response.trades :
              /\ list_response.trades[j].pair_index
                    = extract_pair_index(raw_trades[origin[j]])
              /\ list_response.trades[j].trade_index
                    = extract_trade_index(raw_trades[origin[j]])
        /\ Len(list_response.active_trades) + Len(list_response.closed_trades)
              = Len(list_response.trades)

\* the value of attribute k of a raw record, when it has one that is not None
Attr(trade, k) == trade.a[k]
HasValue(trade, k) == trade.shape = "object" /\ trade.a[k] \notin {Absent, None}
Has(trade, k) == trade.shape = "object" /\ trade.a[k] # Absent

IsClosedWord(s) == s \in ClosedVocabulary
IsClosedWordAnyCase(s) == lower(s) \in ClosedVocabulary

\* the priority chain; anyCase says whether rule 3 ignores the case of the
\* status string
ClosedByPriority(trade, anyCase) ==
    IF HasValue(trade, "close_price") \/ HasValue(trade, "exit_price") THEN TRUE
    ELSE IF Has(trade, "is_closed") THEN truthy(Attr(trade, "is_closed"))
    ELSE IF Has(trade, "status")
    THEN IF anyCase THEN IsClosedWordAnyCase(str_of(Attr(trade, "status")))
         ELSE IsClosedWord(str_of(Attr(trade, "status")))
    ELSE \/ HasValue(trade, "collateral_in_trade")
               /\ Attr(trade, "collateral_in_trade").v = 0
         \/ HasValue(trade, "open_collateral")
               /\ Attr(trade, "open_collateral").v = 0

ExitByPriority(trade) ==
    IF HasValue(trade, "close_price") THEN IntV(Attr(trade, "close_price").v)
    ELSE IF HasValue(trade, "exit_price") THEN IntV(Attr(trade, "exit_price").v)
    ELSE None

\* C13 as stated: a listed record is closed exactly as the priority chain says,
\* rule 3 holding when the status string is one of closed/liquidated/settled.
C13_ClosedPriority ==
    \A j \in DOMAIN formatted_trades :
        LET trade == raw_trades[origin[j]]
        IN  /\ (formatted_trades[j].status = "closed")
                  <=> ClosedByPriority(trade, FALSE)
            /\ HasValue(trade, "close_price") \/ HasValue(trade, "exit_price")
                  => formatted_trades[j].exit_price = ExitByPriority(trade)

\* C13 amended: the same chain, rule 3 comparing the lower-cased status string;
\* a close price takes precedence over an exit price.
C13_ClosedPriorityAnyCase ==
    \A j \in DOMAIN formatted_trades :
        LET trade == raw_trades[origin[j]]
        IN  /\ (formatted_trades[j].status = "closed")
                  <=> ClosedByPriority(trade, TRUE)
            /\ HasValue(trade, "close_price") \/ HasValue(trade, "exit_price")
                  => formatted_trades[j].exit_price = ExitByPriority(trade)

\* a record with close_price set and status "open" is listed as closed
C13_Witness ==
    \E j \in DOMAIN formatted_trades :
        LET trade == raw_trades[origin[j]]
        IN  /\ HasValue(trade, "close_price")
            /\ Attr(trade, "status") = StrV(<<"o", "p", "e", "n">>)
            /\ formatted_trades[j].status = "closed"
            /\ formatted_trades[j].exit_price = IntV(150)

\* C14: in every listed record exit_price is non-None if and only if the
\* record's status is closed.
C14_ExitPriceIffClosed ==
    \A j \in DOMAIN formatted_trades :
        (formatted_trades[j].exit_price # None) <=> (formatted_trades[j].status = "closed")

\* what the profit of a listed record is computed from; an absent entry price
\* is 0 (line 662), an absent collateral 0 and an absent leverage 75 (697-698)
EntryOf(trade) ==
    IF HasValue(trade, "open_price") THEN Attr(trade, "open_price").v ELSE 0
CollateralOf(trade) ==
    IF HasValue(trade, "open_collateral") THEN Attr(trade, "open_collateral").v ELSE 0
LeverageOf(trade) ==
    IF Has(trade, "leverage") THEN Attr(trade, "leverage").v ELSE 75
IsLong(trade) == ~Has(trade, "is_long") \/ truthy(Attr(trade, "is_long"))

PricesKnown(trade) == ExitByPriority(trade) # None /\ EntryOf(trade) > 0
PricesKnownNonZero(trade) == PricesKnown(trade) /\ ExitByPriority(trade).v # 0

\* the profit formula on the listed records that are closed with known prices
\* (nonZero: and an exit price other than 0), zero profit on the active ones
ProfitFormula(nonZero) ==
    \A j \in DOMAIN formatted_trades :
        LET trade == raw_trades[origin[j]]
            rec   == formatted_trades[j]
            entry == EntryOf(trade)
            exit  == ExitByPriority(trade).v
            move  == IF IsLong(trade) THEN exit - entry ELSE entry - exit
        IN  /\ rec.status = "closed"
                  /\ (IF nonZero THEN PricesKnownNonZero(trade) ELSE PricesKnown(trade)) =>
                  /\ rec.pnl = Rat(CollateralOf(trade) * LeverageOf(trade) * move, entry)
                  /\ rec.pnl_percent = Rat(move * LeverageOf(trade) * 100, entry)
            /\ rec.status = "active" =>
                  rec.pnl = Zero /\ rec.pnl_percent = Zero

\* C15 as stated: a closed record with entry and exit price known reports
\* pnl = original_collateral * leverage * price_change and
\* pnl_percent = price_change * leverage * 100, where price_change is
\* (exit-entry)/entry for a long and (entry-exit)/entry for a short; an open
\* record reports 0 for both.
C15_ProfitAndLoss == ProfitFormula(FALSE)

\* C15 amended: the same for a closed record whose exit price is also not 0.
C15_ProfitAndLossNonZeroExit == ProfitFormula(TRUE)

\* the closed long of the example: entry 100, exit 150, leverage 10, collateral 50,
\* next to a closed short with a profit other than 0
C15_Witness ==
    /\ \E j \in DOMAIN formatted_trades :
          LET trade == raw_trades[origin[j]]
          IN  /\ EntryOf(trade) = 100 /\ ExitByPriority(trade) = IntV(150)
              /\ LeverageOf(trade) = 10 /\ CollateralOf(trade) = 50 /\ IsLong(trade)
              /\ formatted_trades[j].status = "closed"
              /\ formatted_trades[j].pnl = Rat(250, 1)
              /\ formatted_trades[j].pnl_percent = Rat(500, 1)
    /\ \E j \in DOMAIN formatted_trades :
          /\ ~IsLong(raw_trades[origin[j]])
          /\ formatted_trades[j].status = "closed"
          /\ formatted_trades[j].pnl = Rat(-250, 1)

\* ------------------------------------------------------------- get_pairs_cache
MaxTime == 900
TickSizes == {150}

\* what a successful fetch can be turned into (lines 91-104)
Mappings ==
    { EmptyMap,
      (0 :> <<"B", "T", "C", "/", "U", "S", "D">>),
      (0 :> <<"B", "T", "C", "/", "U", "S", "D">>)
         @@ (1 :> <<"E", "T", "H", "/", "U", "S", "D">>) }

\* a cache that is served at an age up to and including the TTL
cache_valid_inclusive(cache, timestamp, t) ==
    cache # EmptyMap /\ (t - timestamp) <= PAIRS_CACHE_TTL

\* line 77
cache_valid(cache, timestamp, t) ==
    cache # EmptyMap /\ (t - timestamp) < PAIRS_CACHE_TTL

\* a failure path that never serves the old cache
always_empty(cache) == EmptyMap

\* line 114
stale_or_empty(cache) == IF cache # EmptyMap THEN cache ELSE EmptyMap

\* lines 74-78: the caller reads the clock, then serves the cache or starts a fetch
Lookup(c) ==
    /\ pairs_pc[c] = "idle"
    /\ current_time' = [current_time EXCEPT ![c] = now]
    /\ IF cache_valid(pairs_cache, pairs_cache_timestamp, now)
       THEN /\ pairs_pc' = [pairs_pc EXCEPT ![c] = "returned"]
            /\ pairs_map' = [pairs_map EXCEPT ![c] = pairs_cache]
            /\ lookup_outcome' = [lookup_outcome EXCEPT ![c] = "cache"]
       ELSE /\ pairs_pc' = [pairs_pc EXCEPT ![c] = "fetch"]
            /\ UNCHANGED <<pairs_map, lookup_outcome>>
    /\ UNCHANGED <<pairs_cache, pairs_cache_timestamp, now, refreshed_at>>
    /\ UNCHANGED <<hexVars, envVars, tradeVars, listVars, raceVars>>

\* lines 80-109: the fetch answers and the cache is replaced
FetchOk(c, m) ==
    /\ pairs_pc[c] = "fetch"
    /\ m \in Mappings
    /\ pairs_cache' = m
    /\ pairs_cache_timestamp' = current_time[c]
    /\ refreshed_at' = now
    /\ pairs_map' = [pairs_map EXCEPT ![c] = m]
    /\ lookup_outcome' = [lookup_outcome EXCEPT ![c] = "refreshed"]
    /\ pairs_pc' = [pairs_pc EXCEPT ![c] = "returned"]
    /\ UNCHANGED <<now, current_time>>
    /\ UNCHANGED <<hexVars, envVars, tradeVars, listVars, raceVars>>

\* lines 111-114: the fetch or the parsing of its answer raises
FetchFails(c) ==
    /\ pairs_pc[c] = "fetch"
    /\ pairs_map' = [pairs_map EXCEPT ![c] = stale_or_empty(pairs_cache)]
    /\ lookup_outcome' = [lookup_outcome EXCEPT ![c] = "failed"]
    /\ pairs_pc' = [pairs_pc EXCEPT ![c] = "returned"]
    /\ UNCHANGED <<pairs_cache, pairs_cache_timestamp, now, current_time, refreshed_at>>
    /\ UNCHANGED <<hexVars, envVars, tradeVars, listVars, raceVars>>

\* the caller has used the mapping (line 606) and may look up again
LookupDone(c) ==
    /\ pairs_pc[c] = "returned"
    /\ pairs_pc' = [pairs_pc EXCEPT ![c] = "idle"]
    /\ pairs_map' = [pairs_map EXCEPT ![c] = EmptyMap]
    /\ lookup_outcome' = [lookup_outcome EXCEPT ![c] = "none"]
    /\ current_time' = [current_time EXCEPT ![c] = 0]
    /\ UNCHANGED <<pairs_cache, pairs_cache_timestamp, now, refreshed_at>>
    /\ UNCHANGED <<hexVars, envVars, tradeVars, listVars, raceVars>>

\* time.time() advances
Tick(d) ==
    /\ d \in TickSizes
    /\ now + d <= MaxTime
    /\ now' = now + d
    /\ UNCHANGED <<pairs_cache, pairs_cache_timestamp, pairs_pc, current_time,
                   pairs_map, lookup_outcome, refreshed_at>>
    /\ UNCHANGED <<hexVars, envVars, tradeVars, listVars, raceVars>>

PairsInit == HexIdle /\ EnvIdle /\ TradeIdle /\ ListIdle /\ PairsIdle /\ RaceIdle

PairsNext ==
    \/ \E c \in Callers : Lookup(c)
    \/ \E c \in Callers, m \in Mappings : FetchOk(c, m)
    \/ \E c \in Callers : FetchFails(c)
    \/ \E c \in Callers : LookupDone(c)
    \/ \E d \in TickSizes : Tick(d)

SpecPairs == PairsInit /\ [][PairsNext]_vars

\* ------------------------------------------------------------- claims on the pairs cache
\* caller c's fetch fails in this step
RefreshFails(c) == pairs_pc[c] = "fetch" /\ lookup_outcome'[c] = "failed"

\* C17: when the refresh fails, the caller gets the cached mapping as it is
\* (stale or not) and the cache and its timestamp stay as they were; with a
\* cache that holds nothing every reverse lookup gives None, and the call
\* returns a mapping rather than an error.
C17_RefreshFailure ==
    [][\A c \in Callers :
          RefreshFails(c) =>
              /\ pairs_map'[c] = pairs_cache
              /\ pairs_cache' = pairs_cache
              /\ pairs_cache_timestamp' = pairs_cache_timestamp
              /\ pairs_pc'[c] = "returned"
              /\ pairs_cache = EmptyMap =>
                    \A i \in PairIndexes : reverse_lookup(pairs_map'[c], i) = None]_vars

\* one caller failed on the never-populated cache and got no name; another
\* failed on a populated cache past its TTL and got the old names
C17_Witness ==
    \E c1, c2 \in Callers :
        /\ lookup_outcome[c1] = "failed"
        /\ \A i \in PairIndexes : reverse_lookup(pairs_map[c1], i) = None
        /\ lookup_outcome[c2] = "failed"
        /\ reverse_lookup(pairs_map[c2], 0) # None
        /\ pairs_map[c2] = pairs_cache
        /\ current_time[c2] - pairs_cache_timestamp >= PAIRS_CACHE_TTL

\* caller c begins a lookup in this step, after some refresh has succeeded
LookupAfterRefresh(c) == pairs_pc[c] = "idle" /\ pairs_pc'[c] # "idle" /\ refreshed_at >= 0
ServedFromCache(c) ==
    /\ pairs_pc'[c] = "returned"
    /\ lookup_outcome'[c] = "cache"
    /\ pairs_map'[c] = pairs_cache

\* C18 as stated: with t the time stamped by the last successful refresh, a
\* lookup before t + 300 is served from the cache without a fetch and a lookup
\* at age 300 or more starts a fetch, whatever mapping the refresh stored.
C18_RefreshPolicy ==
    [][\A c \in Callers :
          LookupAfterRefresh(c) =>
              IF now < pairs_cache_timestamp + PAIRS_CACHE_TTL
              THEN ServedFromCache(c)
              ELSE pairs_pc'[c] = "fetch"]_vars

\* C18 amended: the same when the refresh stored a mapping that is not empty;
\* after a refresh that stored an empty mapping every lookup starts a fetch.
C18_RefreshPolicyNonEmpty ==
    [][\A c \in Callers :
          LookupAfterRefresh(c) =>
              IF pairs_cache # EmptyMap
                    /\ now < pairs_cache_timestamp + PAIRS_CACHE_TTL
              THEN ServedFromCache(c)
              ELSE pairs_pc'[c] = "fetch"]_vars

\* one caller was served from a cache of age 150, another starts a fetch at age 300
C18_Witness ==
    \E c1, c2 \in Callers :
        /\ lookup_outcome[c1] = "cache"
        /\ current_time[c1] - pairs_cache_timestamp = 150
        /\ pairs_pc[c2] = "fetch"
        /\ pairs_cache # EmptyMap
        /\ current_time[c2] - pairs_cache_timestamp = PAIRS_CACHE_TTL

\* ------------------------------------------------------------- further claims
\* C24: when the raw transaction's to is a string without the "0x" prefix the
\* built envelope's to is "0x" followed by the same characters, and when it has
\* the prefix the envelope's to is the same string.
C24_AddressPrefix ==
    (Built /\ rawTx["to"].t = "str" /\ rawTx["to"].s # <<>>) =>
        envTrader.tx["to"] =
            IF startswith(rawTx["to"].s, <<"0", "x">>) THEN rawTx["to"]
            ELSE StrV(<<"0", "x">> \o rawTx["to"].s)

\* C30: the stored refresh timestamp never decreases, and a refresh that began
\* earlier than the one whose mapping is stored does not replace that mapping.
C30_NoRegression ==
    [][/\ pairs_cache_timestamp' >= pairs_cache_timestamp
       /\ \A c \in Callers :
             (pairs_pc[c] = "fetch" /\ refreshed_at >= 0
                /\ current_time[c] < pairs_cache_timestamp) =>
                 pairs_cache' = pairs_cache]_vars

\* what the handler makes of raw record i had the market-data call ended the
\* other way
OtherOutcome(i) ==
    format_trade(raw_trades[i],
                 IF market_status[i] = "200" THEN "fail" ELSE "200", EmptyMap)

\* the listed record made from raw record i
ListedAs(i) == formatted_trades[CHOOSE j \in DOMAIN origin : origin[j] = i]

\* C27: whether a raw record is listed, and the indices it is listed with, are
\* the same whether its market-data call answers or fails.
C27_MarketIndependent ==
    \A i \in DOMAIN raw_trades :
        /\ (i \in { origin[j] : j \in DOMAIN origin }) <=> OtherOutcome(i).kept
        /\ OtherOutcome(i).kept =>
              /\ ListedAs(i).pair_index = OtherOutcome(i).rec.pair_index
              /\ ListedAs(i).trade_index = OtherOutcome(i).rec.trade_index

\* an index of the record is not readable as the conventional attribute
OnlyAlternate(trade) ==
    \/ ~HasValue(trade, "pair_index")
    \/ ~HasValue(trade, "trade_index")

\* C23: a raw record exposing an index only under the alternate name or only as
\* a mapping key, both of whose indices resolve, is listed with the resolved
\* integers.
C23_AlternateNames ==
    \A i \in DOMAIN raw_trades :
        (OnlyAlternate(raw_trades[i]) /\ Resolved(raw_trades[i])) =>
            /\ i \in { origin[j] : j \in DOMAIN origin }
            /\ ListedAs(i).pair_index = extract_pair_index(raw_trades[i])
            /\ ListedAs(i).trade_index = extract_trade_index(raw_trades[i])

C25_FallbackRecomputes ==
    (/\ request.op = "execute"
     /\ request.signed_transaction # Null
     /\ (request.pair_index = Null \/ request.trade_index = Null
            \/ request.entry_price = Null)
     /\ pc = "done"
     /\ result.success) =>
        /\ calls = <<"get_pair_index", "get_trades", "get_latest_price_updates",
                     "send_transaction">>
        /\ result.pair_index = PairIndexOf(request.market_pair)
        /\ pair_index = result.pair_index
        /\ IF SamePair = {} THEN result.trade_index = 0
           ELSE /\ result.trade_index - 1 \in {q.trade_index : q \in SamePair}
                /\ \A q \in SamePair : q.trade_index < result.trade_index
        /\ result.entry_price = current_price
        /\ current_price \in FeedPrices
        /\ response.status = 200
        /\ response.trade_index = result.trade_index

\* a fallback that succeeded with a recomputed slot above 0 and a fetched price
\* other than the one the request carried
C25_Witness ==
    /\ request.op = "execute"
    /\ request.signed_transaction # Null
    /\ request.trade_index = Null
    /\ request.entry_price # Null
    /\ pc = "done"
    /\ result.success
    /\ result.trade_index > 0
    /\ result.entry_price # request.entry_price

\* the signer has answered the request's eth_sendTransaction call: the handler
\* has gone on to send_transaction
SignerHasSent ==
    \E i \in DOMAIN calls :
        calls[i] = "privy_rpc" /\ i < Len(calls) /\ calls[i + 1] = "send_transaction"

\* C28: a server-signed open or a close that returns a TradeResult with
\* success = false has not had its transaction sent by the signer.
C28_FailureMeansNothingSent ==
    (/\ request.op \in {"execute", "close"}
     /\ request.signed_transaction = Null
     /\ result.returned
     /\ ~result.success) => ~SignerHasSent

\* ------------------------------------------------------------- concurrent requests
\* Request tasks of one (user, wallet) key on one event loop.  A task runs from
\* one await to the next; at an await the loop may run another task.

\* an initialize() that leaves the trader uninitialized
not_initialized(done, trader) == done

\* trader_privy.py 90-105: initialize() sets _initialized
initialized_after(done, trader) == done \cup {trader}

\* a submission reported as successful whatever the chain answered
submission_unchecked(accepted) == "ok"

\* trader_privy.py 447-471: send_transaction returns a receipt, or raises and
\* the except clause returns TradeResult(success=False)
submission(accepted) == IF accepted THEN "ok" ELSE "failed"

\* the positions of the one pair the racing opens are for
PairOfRace == 0

\* main.py 224, 234-236: the key is in the cache, the cached trader is returned
CacheHit(k) ==
    /\ task_pc[k] = "idle"
    /\ traders # NoTrader
    /\ task_trader' = [task_trader EXCEPT ![k] = traders]
    /\ task_pc' = [task_pc EXCEPT ![k] = "working"]
    /\ UNCHANGED <<traders, closed_traders, initialized, created, stored_last,
                   slots_taken, task_evicting, task_read, task_slot, task_result>>
    /\ UNCHANGED <<hexVars, envVars, tradeVars, listVars, pairsVars>>

\* main.py 224-231: the key is not in the cache, a trader is constructed and
\* initialize() is awaited
CacheMiss(k) ==
    /\ task_pc[k] = "idle"
    /\ traders = NoTrader
    /\ created < MaxTraders
    /\ created' = created + 1
    /\ task_trader' = [task_trader EXCEPT ![k] = created + 1]
    /\ task_pc' = [task_pc EXCEPT ![k] = "initialize"]
    /\ UNCHANGED <<traders, closed_traders, initialized, stored_last, slots_taken,
                   task_evicting, task_read, task_slot, task_result>>
    /\ UNCHANGED <<hexVars, envVars, tradeVars, listVars, pairsVars>>

\* main.py 231-236: initialize() has returned, the trader is stored under the
\* key and the cache entry is returned
InitializeReturns(k) ==
    /\ task_pc[k] = "initialize"
    /\ initialized' = initialized_after(initialized, task_trader[k])
    /\ traders' = task_trader[k]
    /\ stored_last' = task_trader[k]
    /\ task_trader' = [task_trader EXCEPT ![k] = traders']
    /\ task_pc' = [task_pc EXCEPT ![k] = "working"]
    /\ UNCHANGED <<closed_traders, created, slots_taken, task_evicting, task_read,
                   task_slot, task_result>>
    /\ UNCHANGED <<hexVars, envVars, tradeVars, listVars, pairsVars>>

\* trader_privy.py 154-177, 370-394: the open positions are read and the slot
\* is one past the highest of the pair
ReadPositions(k) ==
    /\ task_pc[k] = "working"
    /\ \A p \in slots_taken : p.trade_index < MaxSlot
    /\ task_read' = [task_read EXCEPT ![k] = slots_taken]
    /\ task_slot' = [task_slot EXCEPT ![k] = next_slot(slots_taken, PairOfRace)]
    /\ task_pc' = [task_pc EXCEPT ![k] = "submit"]
    /\ UNCHANGED <<traders, closed_traders, initialized, created, stored_last,
                   slots_taken, task_trader, task_evicting, task_result>>
    /\ UNCHANGED <<hexVars, envVars, tradeVars, listVars, pairsVars>>

\* the transaction reaches the chain, which takes it only if the slot is free
SubmitAnswers(k) ==
    /\ task_pc[k] = "submit"
    /\ LET p == Position(PairOfRace, task_slot[k])
       IN  /\ slots_taken' = slots_taken \cup {p}
           /\ task_result' = [task_result EXCEPT ![k] = submission(p \notin slots_taken)]
    /\ task_pc' = [task_pc EXCEPT ![k] = "done"]
    /\ UNCHANGED <<traders, closed_traders, initialized, created, stored_last,
                   task_trader, task_evicting, task_read, task_slot>>
    /\ UNCHANGED <<hexVars, envVars, tradeVars, listVars, pairsVars>>

\* the signer or the submission fails before the transaction reaches the chain
SubmitRaises(k) ==
    /\ task_pc[k] = "submit"
    /\ task_result' = [task_result EXCEPT ![k] = submission(FALSE)]
    /\ task_pc' = [task_pc EXCEPT ![k] = "done"]
    /\ UNCHANGED <<traders, closed_traders, initialized, created, stored_last,
                   slots_taken, task_trader, task_evicting, task_read, task_slot>>
    /\ UNCHANGED <<hexVars, envVars, tradeVars, listVars, pairsVars>>

\* main.py 297-312, 363: a call of execute_trade outside the trader methods
\* raises and the handler's except Exception clause is entered
ResolverRaises(k) ==
    /\ task_pc[k] = "working"
    /\ task_pc' = [task_pc EXCEPT ![k] = "evict"]
    /\ UNCHANGED <<traders, closed_traders, initialized, created, stored_last,
                   slots_taken, task_trader, task_evicting, task_read, task_slot,
                   task_result>>
    /\ UNCHANGED <<hexVars, envVars, tradeVars, listVars, pairsVars>>

\* main.py 369-372: the key is looked up and close() of the cached trader is
\* awaited
EvictCheck(k) ==
    /\ task_pc[k] = "evict"
    /\ IF traders = NoTrader
       THEN /\ task_result' = [task_result EXCEPT ![k] = "error"]
            /\ task_pc' = [task_pc EXCEPT ![k] = "done"]
            /\ UNCHANGED <<closed_traders, task_evicting>>
       ELSE /\ closed_traders' = closed_traders \cup {traders}
            /\ task_evicting' = [task_evicting EXCEPT ![k] = traders]
            /\ task_pc' = [task_pc EXCEPT ![k] = "closing"]
            /\ UNCHANGED task_result
    /\ UNCHANGED <<traders, initialized, created, stored_last, slots_taken,
                   task_trader, task_read, task_slot>>
    /\ UNCHANGED <<hexVars, envVars, tradeVars, listVars, pairsVars>>

\* main.py 375-377: close() has returned; del _trader_cache[cache_key] raises
\* KeyError when the key is gone
EvictDelete(k) ==
    /\ task_pc[k] = "closing"
    /\ IF traders = NoTrader
       THEN /\ task_result' = [task_result EXCEPT ![k] = "KeyError"]
            /\ UNCHANGED traders
       ELSE /\ traders' = NoTrader
            /\ task_result' = [task_result EXCEPT ![k] = "error"]
    /\ task_pc' = [task_pc EXCEPT ![k] = "done"]
    /\ UNCHANGED <<closed_traders, initialized, created, stored_last, slots_taken,
                   task_trader, task_evicting, task_read, task_slot>>
    /\ UNCHANGED <<hexVars, envVars, tradeVars, listVars, pairsVars>>

\* the response is sent and the task is gone; another request may come
TaskEnds(k) ==
    /\ task_pc[k] = "done"
    /\ task_pc' = [task_pc EXCEPT ![k] = "idle"]
    /\ task_trader' = [task_trader EXCEPT ![k] = NoTrader]
    /\ task_evicting' = [task_evicting EXCEPT ![k] = NoTrader]
    /\ task_read' = [task_read EXCEPT ![k] = {}]
    /\ task_slot' = [task_slot EXCEPT ![k] = NoSlot]
    /\ task_result' = [task_result EXCEPT ![k] = "none"]
    /\ UNCHANGED <<traders, closed_traders, initialized, created, stored_last,
                   slots_taken>>
    /\ UNCHANGED <<hexVars, envVars, tradeVars, listVars, pairsVars>>

RaceInit == HexIdle /\ EnvIdle /\ TradeIdle /\ ListIdle /\ PairsIdle /\ RaceIdle

RaceNext ==
    \/ \E k \in Tasks : CacheHit(k)
    \/ \E k \in Tasks : CacheMiss(k)
    \/ \E k \in Tasks : InitializeReturns(k)
    \/ \E k \in Tasks : ReadPositions(k)
    \/ \E k \in Tasks : SubmitAnswers(k)
    \/ \E k \in Tasks : SubmitRaises(k)
    \/ \E k \in Tasks : ResolverRaises(k)
    \/ \E k \in Tasks : EvictCheck(k)
    \/ \E k \in Tasks : EvictDelete(k)
    \/ \E k \in Tasks : TaskEnds(k)

SpecRace == RaceInit /\ [][RaceNext]_vars

\* ------------------------------------------------------------- claims on concurrent requests
\* C21: two opens that computed the same slot of the pair do not both succeed;
\* each of them ends with a result, the one the chain rejected with a failed one.
C21_SlotRace ==
    \A j, k \in Tasks :
        (/\ j # k
         /\ task_pc[j] = "done" /\ task_pc[k] = "done"
         /\ task_slot[j] # NoSlot
         /\ task_slot[j] = task_slot[k]) =>
            /\ {task_result[j], task_result[k]} \subseteq {"ok", "failed"}
            /\ ~(task_result[j] = "ok" /\ task_result[k] = "ok")

\* both opens read the same positions, computed the same slot, one succeeded and
\* the other failed
C21_Witness ==
    \E j, k \in Tasks :
        /\ j # k
        /\ task_pc[j] = "done" /\ task_pc[k] = "done"
        /\ task_read[j] = task_read[k]
        /\ task_slot[j] = task_slot[k]
        /\ task_slot[j] # NoSlot
        /\ task_result[j] = "ok"
        /\ task_result[k] = "failed"

\* C22: the cache holds at most the trader stored last for the key, and every
\* request past get_or_create_trader works with an initialized trader.
C22_CacheRace ==
    /\ traders # NoTrader => traders = stored_last
    /\ \A k \in Tasks :
          task_pc[k] \in {"working", "submit"} =>
              /\ task_trader[k] # NoTrader
              /\ task_trader[k] \in initialized

\* two first requests each built a trader; the cache holds the one stored last
C22_Witness ==
    /\ closed_traders = {}
    /\ created = 2
    /\ \A k \in Tasks : task_pc[k] = "working"
    /\ task_trader[1] # task_trader[2]
    /\ traders = stored_last
    /\ traders \in {task_trader[1], task_trader[2]}

\* C29: the eviction step of a failing request never finds the key gone when it
\* deletes, deletes only the trader it checked and closed, and no request is
\* handed a cached trader that has been closed.
C29_AtomicEviction ==
    [][\A k \in Tasks :
          /\ (task_pc[k] = "closing" /\ task_pc'[k] = "done") =>
                /\ task_result'[k] # "KeyError"
                /\ traders = task_evicting[k]
          /\ (task_pc[k] = "idle" /\ task_pc'[k] = "working") =>
                task_trader'[k] \notin closed_traders]_vars

====
